---- MODULE Spec2Model ----
(***************************************************************************)
(* A model of the bitstream library (src/src/bitstream.pyx): the byte      *)
(* buffer with its two bit cursors, the fixed-width readers and writers,   *)
(* the snapshot stack (save / restore), copy, equality and hash.           *)
(*                                                                         *)
(* Conventions.  The buffer `_bytes` is a sequence of bytes 0..255; the C  *)
(* index i is the TLA+ index i + 1.  A bool is the integer 0 or 1.  An     *)
(* 8-bit or 16-bit value is an integer; a 32-bit or 64-bit value and a     *)
(* float64 are given by their base-256 digits, most significant first      *)
(* (the integers of TLC are 32 bits wide), so that the byte                *)
(* `(v >> 8 * k) & 255` of the code is a digit of v.  The count n of a     *)
(* read is None (-1) or a natural number.                                  *)
(*                                                                         *)
(* Specifications.  Spec: every operation on up to MaxStreams streams.     *)
(* SpecSnap: one stream and its snapshots, over longer runs.  SpecFifo:    *)
(* writes and reads of one stream, with the calls recorded.  SpecCodec:    *)
(* one value written and read back at each bit offset.  SpecEq: two        *)
(* streams compared and hashed.  SpecRead: reads of every built-in type,   *)
(* with and without a count, from a stream that may be too short.          *)
(* SpecWrite: BitStream.write with data of every built-in type, in and out *)
(* of range, scalars and lists, with and without a type identifier.        *)
(* SpecSub: two streams written into each other at every bit offset.       *)
(* SpecReg: codecs registered, and the writes and reads they serve.        *)
(* SpecSeq: one write of a scalar, a list or a stream at each bit offset.  *)
(* SpecMany: one read of one or several items at each bit offset.          *)
(* SpecStale: one write at each bit offset after a restore.                *)
(***************************************************************************)
EXTENDS Integers, Sequences, FiniteSets, TLC

\* ------------------------------------------------------------------ bounds
\* The number of calls the client makes in Spec (all operations, all streams).
MaxOps == 6
\* The number of stream objects alive at the same time.
MaxStreams == 2
\* The number of calls the client makes in SpecSnap (one stream, snapshots).
MaxSnapOps == 8
\* The number of calls of a run of SpecFifo.
MaxFifoOps == 7
\* The largest number of bits written and read before the value of SpecCodec.
MaxPad == 7
\* The number of calls of a run of SpecEq.
MaxEqOps == 5
\* The number of calls of a run of SpecRead.
MaxReadOps == 4
\* The number of calls of a run of SpecWrite.
MaxWriteOps == 3
\* The number of calls of a run of SpecSub.
MaxSubOps == 6
\* The number of calls in SpecReg (registrations, writes and reads).
MaxRegOps == 4

None == -1

\* ---------------------------------------------------------- byte arithmetic
RECURSIVE Pow2(_)
Pow2(n) == IF n = 0 THEN 1 ELSE 2 * Pow2(n - 1)

RECURSIVE BitAndN(_, _, _)
BitAndN(a, b, n) ==
    IF n = 0 THEN 0
    ELSE (a % 2) * (b % 2) + 2 * BitAndN(a \div 2, b \div 2, n - 1)

RECURSIVE BitOrN(_, _, _)
BitOrN(a, b, n) ==
    IF n = 0 THEN 0
    ELSE (IF a % 2 = 1 \/ b % 2 = 1 THEN 1 ELSE 0)
         + 2 * BitOrN(a \div 2, b \div 2, n - 1)

\* a & b and a | b on C ints that hold at most 16 significant bits.
AndTable == [a \in 0 .. 255 |-> [b \in 0 .. 255 |-> BitAndN(a, b, 8)]]
OrTable == [a \in 0 .. 255 |-> [b \in 0 .. 255 |-> BitOrN(a, b, 8)]]
And(a, b) == IF a < 256 /\ b < 256 THEN AndTable[a][b] ELSE BitAndN(a, b, 16)
Or(a, b) == IF a < 256 /\ b < 256 THEN OrTable[a][b] ELSE BitOrN(a, b, 16)
\* a >> k and a << k on C ints (no truncation).
Shr(a, k) == a \div Pow2(k)
Shl(a, k) == a * Pow2(k)
\* The conversion to unsigned char.
UChar(a) == a % 256

\* _bytes[i], and _bytes with _bytes[i] = b (C indices).
Get(bytes, i) == bytes[i + 1]
Put(bytes, i, b) == [bytes EXCEPT ![i + 1] = b]

\* ------------------------------------------------------------------ State
\* A snapshot: the stream it belongs to, the two cursors and its id.
NewState(sid, ro, wo, id) ==
    [stream |-> sid, read_offset |-> ro, write_offset |-> wo, id |-> id]

\* A State.__richcmp__ that would leave the id out of the comparison.
StateEqAnyId(s, o) ==
    /\ s.stream = o.stream
    /\ s.read_offset = o.read_offset
    /\ s.write_offset = o.write_offset

\* State.__richcmp__ (operation 2).
StateEq(s, o) ==
    /\ s.stream = o.stream
    /\ s.read_offset = o.read_offset
    /\ s.write_offset = o.write_offset
    /\ s.id = o.id

\* ----------------------------------------------------------------- BitStream
\* BitStream.__cinit__: an empty buffer, both cursors at 0, one snapshot.
cinit(sid) ==
    [bytes |-> << >>, read_offset |-> 0, write_offset |-> 0,
     states |-> << NewState(sid, 0, 0, 0) >>, state_id |-> 0]

\* BitStream.__len__
len(st) == st.write_offset - st.read_offset

num_bytes(st) == Len(st.bytes)

\* An extend that would not count the byte that is only partly needed.
extendWholeBytes(st, num_bits, g) ==
    LET num_extra_bits == num_bits + st.write_offset - 8 * num_bytes(st)
    IN  IF num_extra_bits > 0
        THEN [st EXCEPT !.bytes =
                 st.bytes \o [i \in 1 .. (num_extra_bits \div 8) |-> g]]
        ELSE st

\* An extend that would allocate the bytes of num_bits whatever the room
\* the buffer has left.
extendAlways(st, num_bits, g) ==
    [st EXCEPT !.bytes =
        st.bytes \o [i \in 1 .. ((num_bits + 7) \div 8) |-> g]]

\* BitStream._extend: realloc leaves the new bytes uninitialised; g is the
\* value they happen to hold.
extend(st, num_bits, g) ==
    LET num_extra_bits == num_bits + st.write_offset - 8 * num_bytes(st)
    IN  IF num_extra_bits > 0
        THEN LET num_extra_bytes == num_extra_bits \div 8
                 rem == num_extra_bits - 8 * num_extra_bytes
                 new_num_bytes == num_bytes(st) + num_extra_bytes
                                  + (IF rem # 0 THEN 1 ELSE 0)
             IN  [st EXCEPT !.bytes =
                     st.bytes \o [i \in 1 .. (new_num_bytes - num_bytes(st)) |-> g]]
        ELSE st

\* BitStream.__str__: the bits between the two cursors, as a sequence of 0/1.
str(st) ==
    [i \in 1 .. len(st) |->
        LET pos == st.read_offset + (i - 1)
            byte_index == pos \div 8
            bit_index == pos % 8
            mask == Shr(128, bit_index)
        IN  IF And(Get(st.bytes, byte_index), mask) # 0 THEN 1 ELSE 0]

\* ------------------------------------------------------------ input data
\* The data argument of a writer: a scalar or a list of items.
Scalar(v) == [list |-> FALSE, items |-> << v >>]
List(vs) == [list |-> TRUE, items |-> vs]

\* numpy's conversions of an integer to a fixed-width dtype (wrap-around).
ToUint8(v) == v % 256
ToInt8(v) == ((v + 128) % 256) - 128
ToUint16(v) == v % 65536
ToInt16(v) == ((v + 32768) % 65536) - 32768

\* ------------------------------------------------------------ write_bool
\* A write_bool that would set the bit whatever the value.
SetBitAlways(bytes, offset, b) ==
    LET byte_index == Shr(offset, 3)
        bit_index == offset % 8
        mask == Shr(128, bit_index)
    IN  Put(bytes, byte_index, Or(Get(bytes, byte_index), mask))

\* One bool stored at the absolute bit position `offset`:
\* _bytes[byte_index] | mask for a true value, & ~mask otherwise.
SetBit(bytes, offset, b) ==
    LET byte_index == Shr(offset, 3)
        bit_index == offset % 8
        mask == Shr(128, bit_index)
    IN  IF b # 0
        THEN Put(bytes, byte_index, Or(Get(bytes, byte_index), mask))
        ELSE Put(bytes, byte_index, And(Get(bytes, byte_index), 255 - mask))

RECURSIVE SetBits(_, _, _, _)
SetBits(bytes, offset, bools, i) ==
    IF i = Len(bools) THEN bytes
    ELSE SetBits(SetBit(bytes, offset + i, bools[i + 1]), offset, bools, i + 1)

write_bool(st, bools, g) ==
    LET offset == st.write_offset
        n == Len(bools.items)
        ext == extend(st, IF bools.list THEN n ELSE 1, g)
    IN  IF bools.list
        THEN [ext EXCEPT !.bytes = SetBits(ext.bytes, offset, bools.items, 0),
                         !.write_offset = offset + n]
        ELSE [ext EXCEPT !.bytes = SetBit(ext.bytes, offset, bools.items[1]),
                         !.write_offset = offset + 1]

\* --------------------------------------------------- byte-splicing loops
\* The aligned loop body: _bytes[idx] = <unsigned char> base.
RECURSIVE StoreSeq(_, _, _, _)
StoreSeq(bytes, idx, src, k) ==
    IF k = Len(src) THEN bytes
    ELSE StoreSeq(Put(bytes, idx + k, UChar(src[k + 1])), idx, src, k + 1)

\* An unaligned loop body that would drop the bits already in _bytes[idx].
SpliceLoseHigh(bytes, idx, base, bit_index, lo_shift) ==
    LET mask2 == Shr(255, bit_index)
        mask1 == 255 - mask2
        b1 == Put(bytes, idx, Shr(UChar(base), bit_index))
        lo == And(Shl(UChar(base), lo_shift), 255)
    IN  Put(b1, idx + 1, Or(And(Get(b1, idx + 1), mask2), lo))

\* The unaligned loop body for one source byte `base`:
\*   byte = (<unsigned char> base) >> bit_index
\*   _bytes[idx] = (_bytes[idx] & mask1) | byte
\*   byte = ((<unsigned char> base) << lo_shift) & 255
\*   _bytes[idx + 1] = (_bytes[idx + 1] & mask2) | byte
\* lo_shift is the shift the writer at hand applies to the low part.
Splice(bytes, idx, base, bit_index, lo_shift) ==
    LET mask2 == Shr(255, bit_index)
        mask1 == 255 - mask2
        hi == Shr(UChar(base), bit_index)
        b1 == Put(bytes, idx, Or(And(Get(bytes, idx), mask1), hi))
        lo == And(Shl(UChar(base), lo_shift), 255)
    IN  Put(b1, idx + 1, Or(And(Get(b1, idx + 1), mask2), lo))

RECURSIVE SpliceSeq(_, _, _, _, _, _)
SpliceSeq(bytes, idx, src, bit_index, lo_shift, k) ==
    IF k = Len(src) THEN bytes
    ELSE SpliceSeq(Splice(bytes, idx + k, src[k + 1], bit_index, lo_shift),
                   idx, src, bit_index, lo_shift, k + 1)

\* The source bytes in little-endian order: v & 255, then v >> 8.
RECURSIVE Bytes16Swapped(_)
Bytes16Swapped(vs) ==
    IF vs = << >> THEN << >>
    ELSE << vs[1] % 256, UChar(vs[1] \div 256) >> \o Bytes16Swapped(Tail(vs))

\* The source bytes of a list of 16-bit integers: v >> 8, then v & 255.
RECURSIVE Bytes16(_)
Bytes16(vs) ==
    IF vs = << >> THEN << >>
    ELSE << UChar(vs[1] \div 256), vs[1] % 256 >> \o Bytes16(Tail(vs))

\* The source bytes of a list of 32-bit or 64-bit values (digit sequences).
RECURSIVE Flatten(_)
Flatten(vs) == IF vs = << >> THEN << >> ELSE vs[1] \o Flatten(Tail(vs))

\* ------------------------------------------------------ 8-bit integers
\* write_uint8 (list branch and scalar branch) and _write_uint8.
write_uint8(st, data, g) ==
    LET byte_index == st.write_offset \div 8
        bit_index == st.write_offset - 8 * byte_index
        bit_index_c == 8 - bit_index
        array == [i \in 1 .. Len(data.items) |-> ToUint8(data.items[i])]
        nb == Len(array)
        ext == extend(st, 8 * nb, g)
    IN  [ext EXCEPT
            !.bytes = IF bit_index = 0
                      THEN StoreSeq(ext.bytes, byte_index, array, 0)
                      ELSE SpliceSeq(ext.bytes, byte_index, array,
                                     bit_index, bit_index_c, 0),
            !.write_offset = st.write_offset + 8 * nb]

\* write_bytes: numpy.frombuffer(string, uint8), then _write_uint8.
write_bytes(st, string, g) == write_uint8(st, List(string), g)

\* write_int8 and _write_int8.
write_int8(st, data, g) ==
    LET int8s == [i \in 1 .. Len(data.items) |-> ToInt8(data.items[i])]
        nb == Len(int8s)
        ext == extend(st, 8 * nb, g)
        byte_index == st.write_offset \div 8
        bit_index == st.write_offset - 8 * byte_index
        bit_index_c == 8 - bit_index
    IN  [ext EXCEPT
            !.bytes = IF bit_index = 0
                      THEN StoreSeq(ext.bytes, byte_index, int8s, 0)
                      ELSE SpliceSeq(ext.bytes, byte_index, int8s,
                                     bit_index, bit_index_c, 0),
            !.write_offset = st.write_offset + 8 * nb]

\* ------------------------------------------------------ 16-bit integers
\* _write_uint16 on the array numpy.array(data, uint16, ndmin=1).
write_uint16(st, data, g) ==
    LET uint16s == [i \in 1 .. Len(data.items) |-> ToUint16(data.items[i])]
        n == Len(uint16s)
        ext == extend(st, 16 * n, g)
        byte_index == st.write_offset \div 8
        bit_index == st.write_offset - 8 * byte_index
        bit_index_c == 8 - bit_index
    IN  [ext EXCEPT
            !.bytes = IF bit_index = 0
                      THEN StoreSeq(ext.bytes, byte_index, Bytes16(uint16s), 0)
                      ELSE SpliceSeq(ext.bytes, byte_index, Bytes16(uint16s),
                                     bit_index, bit_index_c, 0),
            !.write_offset = st.write_offset + 16 * n]

\* _write_int16 on the array numpy.array(data, int16, ndmin=1).
write_int16(st, data, g) ==
    LET int16s == [i \in 1 .. Len(data.items) |-> ToInt16(data.items[i])]
        n == Len(int16s)
        ext == extend(st, 16 * n, g)
        byte_index == st.write_offset \div 8
        bit_index == st.write_offset - 8 * byte_index
        bit_index_c == 8 - bit_index
    IN  [ext EXCEPT
            !.bytes = IF bit_index = 0
                      THEN StoreSeq(ext.bytes, byte_index, Bytes16(int16s), 0)
                      ELSE SpliceSeq(ext.bytes, byte_index, Bytes16(int16s),
                                     bit_index, bit_index_c, 0),
            !.write_offset = st.write_offset + 16 * n]

\* ------------------------------------------------ 32-bit and 64-bit integers
\* numpy's conversion of an integer to a dtype of k bytes.  The integer is
\* given by its base-256 digits in two's complement, of any length (the sign
\* is the top bit of the first digit): its k low digits, after sign extension.
ToDigits(v, k) ==
    LET sign == IF v[1] >= 128 THEN 255 ELSE 0
    IN  [i \in 1 .. k |-> IF Len(v) - k + i >= 1 THEN v[Len(v) - k + i] ELSE sign]

\* _write_uint32: the unaligned branch shifts the low part by bit_index.
write_uint32(st, data, g) ==
    LET uint32s == [i \in 1 .. Len(data.items) |-> ToDigits(data.items[i], 4)]
        n == Len(uint32s)
        ext == extend(st, 32 * n, g)
        byte_index == st.write_offset \div 8
        bit_index == st.write_offset - 8 * byte_index
    IN  [ext EXCEPT
            !.bytes = IF bit_index = 0
                      THEN StoreSeq(ext.bytes, byte_index, Flatten(uint32s), 0)
                      ELSE SpliceSeq(ext.bytes, byte_index, Flatten(uint32s),
                                     bit_index, bit_index, 0),
            !.write_offset = st.write_offset + 32 * n]

\* The aligned loop of _write_int32: item i is stored at byte_index + 2 * i.
RECURSIVE StoreInt32s(_, _, _, _)
StoreInt32s(bytes, byte_index, int32s, i) ==
    IF i = Len(int32s) THEN bytes
    ELSE StoreInt32s(StoreSeq(bytes, byte_index + 2 * i, int32s[i + 1], 0),
                     byte_index, int32s, i + 1)

write_int32(st, data, g) ==
    LET int32s == [i \in 1 .. Len(data.items) |-> ToDigits(data.items[i], 4)]
        n == Len(int32s)
        ext == extend(st, 32 * n, g)
        byte_index == st.write_offset \div 8
        bit_index == st.write_offset - 8 * byte_index
    IN  [ext EXCEPT
            !.bytes = IF bit_index = 0
                      THEN StoreInt32s(ext.bytes, byte_index, int32s, 0)
                      ELSE SpliceSeq(ext.bytes, byte_index, Flatten(int32s),
                                     bit_index, bit_index, 0),
            !.write_offset = st.write_offset + 32 * n]

\* _write_uint64 and _write_int64 (the same code).
write_uint64(st, data, g) ==
    LET uint64s == [i \in 1 .. Len(data.items) |-> ToDigits(data.items[i], 8)]
        n == Len(uint64s)
        ext == extend(st, 64 * n, g)
        byte_index == st.write_offset \div 8
        bit_index == st.write_offset - 8 * byte_index
    IN  [ext EXCEPT
            !.bytes = IF bit_index = 0
                      THEN StoreSeq(ext.bytes, byte_index, Flatten(uint64s), 0)
                      ELSE SpliceSeq(ext.bytes, byte_index, Flatten(uint64s),
                                     bit_index, bit_index, 0),
            !.write_offset = st.write_offset + 64 * n]

write_int64(st, data, g) == write_uint64(st, data, g)

\* ------------------------------------------------------------------ float64
\* The unaligned loop body of _write_float64 for the byte buf of _buffer:
\*   pointer[i]   = (pointer[i] & (255 << bit_offset_c))
\*                  + ((buf & (255 << bit_offset)) >> bit_offset)
\*   pointer[i+1] = ((buf & (255 >> bit_offset_c)) << bit_offset_c)
\*                  + (pointer[i+1] & (255 >> bit_offset))
FloatSplice(bytes, idx, buf, bit_offset) ==
    LET bit_offset_c == 8 - bit_offset
        p0 == UChar(And(Get(bytes, idx), Shl(255, bit_offset_c))
                    + Shr(And(buf, Shl(255, bit_offset)), bit_offset))
        b1 == Put(bytes, idx, p0)
        p1 == UChar(Shl(And(buf, Shr(255, bit_offset_c)), bit_offset_c)
                    + And(Get(b1, idx + 1), Shr(255, bit_offset)))
    IN  Put(b1, idx + 1, p1)

RECURSIVE FloatSpliceSeq(_, _, _, _, _)
FloatSpliceSeq(bytes, idx, src, bit_offset, k) ==
    IF k = Len(src) THEN bytes
    ELSE FloatSpliceSeq(FloatSplice(bytes, idx + k, src[k + 1], bit_offset),
                        idx, src, bit_offset, k + 1)

\* write_float64: _PyFloat_Pack8 gives the 8 big-endian bytes of each double.
write_float64(st, data, g) ==
    LET float64s == data.items
        num_floats == Len(float64s)
        ext == extend(st, 64 * num_floats, g)
        bit_offset == st.write_offset % 8
        byte_offset == st.write_offset \div 8
    IN  [ext EXCEPT
            !.bytes = IF bit_offset = 0
                      THEN StoreSeq(ext.bytes, byte_offset, Flatten(float64s), 0)
                      ELSE FloatSpliceSeq(ext.bytes, byte_offset,
                                          Flatten(float64s), bit_offset, 0),
            !.write_offset = st.write_offset + 64 * num_floats]

\* ----------------------------------------------------------------- readers
\* What a read gives: the stream after the call, the exception raised
\* ("none" when the call returns) and the value returned.
Ok(st, val) == [st |-> st, err |-> "none", val |-> val]
Raise(st, err) == [st |-> st, err |-> err, val |-> << >>]

\* The bit of _bytes at the absolute position pos: bool(_bytes[.] & mask).
BitAt(bytes, pos) ==
    LET byte_index == pos \div 8
        bit_index == pos - 8 * byte_index
        mask == Shr(128, bit_index)
    IN  IF And(Get(bytes, byte_index), mask) # 0 THEN 1 ELSE 0

read_bool(st, n) ==
    IF n = None
    THEN IF len(st) = 0 THEN Raise(st, "ReadError")
         ELSE Ok([st EXCEPT !.read_offset = st.read_offset + 1],
                 << BitAt(st.bytes, st.read_offset) >>)
    ELSE IF n > len(st) THEN Raise(st, "ReadError")
         ELSE Ok([st EXCEPT !.read_offset = st.read_offset + n],
                 [i \in 1 .. n |-> BitAt(st.bytes, st.read_offset + (i - 1))])

\* A reader that would take the low bits from _bytes[idx] again.
ByteAtSwapped(bytes, idx, bit_index) ==
    IF bit_index = 0 THEN Get(bytes, idx)
    ELSE LET bit_index_c == 8 - bit_index
             mask1 == Shr(255, bit_index)
             mask2 == 255 - mask1
         IN  Shl(And(Get(bytes, idx), mask1), bit_index)
             + Shr(And(Get(bytes, idx), mask2), bit_index_c)

\* The byte that starts bit_index bits into _bytes[idx]:
\*   ((_bytes[idx] & mask1) << bit_index) + ((_bytes[idx+1] & mask2) >> bit_index_c)
\* and _bytes[idx] itself when bit_index is 0.
ByteAt(bytes, idx, bit_index) ==
    IF bit_index = 0 THEN Get(bytes, idx)
    ELSE LET bit_index_c == 8 - bit_index
             mask1 == Shr(255, bit_index)
             mask2 == 255 - mask1
         IN  Shl(And(Get(bytes, idx), mask1), bit_index)
             + Shr(And(Get(bytes, idx + 1), mask2), bit_index_c)

Min(a, b) == IF a < b THEN a ELSE b

\* A read_uint8 that would move the cursor to the end of the stream before it
\* raises.
read_uint8Draining(st, n) ==
    LET byte_index == st.read_offset \div 8
        bit_index == st.read_offset - 8 * byte_index
        drained == [st EXCEPT !.read_offset = st.write_offset]
    IN  IF n = None
        THEN IF len(st) < 8 THEN Raise(drained, "ReadError")
             ELSE Ok([st EXCEPT !.read_offset = st.read_offset + 8],
                     << UChar(ByteAt(st.bytes, byte_index, bit_index)) >>)
        ELSE IF len(st) < 8 * n THEN Raise(drained, "ReadError")
             ELSE LET nb == Min(n, len(st) \div 8)
                  IN  Ok([st EXCEPT !.read_offset = st.read_offset + 8 * nb],
                         [i \in 1 .. nb |->
                             UChar(ByteAt(st.bytes, byte_index + (i - 1), bit_index))])

read_uint8(st, n) ==
    LET byte_index == st.read_offset \div 8
        bit_index == st.read_offset - 8 * byte_index
    IN  IF n = None
        THEN IF len(st) < 8 THEN Raise(st, "ReadError")
             ELSE Ok([st EXCEPT !.read_offset = st.read_offset + 8],
                     << UChar(ByteAt(st.bytes, byte_index, bit_index)) >>)
        ELSE IF len(st) < 8 * n THEN Raise(st, "ReadError")
             ELSE LET nb == Min(n, len(st) \div 8)
                  IN  Ok([st EXCEPT !.read_offset = st.read_offset + 8 * nb],
                         [i \in 1 .. nb |->
                             UChar(ByteAt(st.bytes, byte_index + (i - 1), bit_index))])

\* read_int8: read_uint8(stream, n).astype("int8").
read_int8(st, n) ==
    LET r == read_uint8(st, n)
    IN  IF r.err # "none" THEN r
        ELSE Ok(r.st, [i \in 1 .. Len(r.val) |-> ToInt8(r.val[i])])

\* A read_bytes that would return the whole bytes of a stream whose length
\* is not a multiple of 8.
read_bytesTruncating(st, n) ==
    IF n = None
    THEN read_uint8(st, len(st) \div 8)
    ELSE IF n > len(st) \div 8 THEN Raise(st, "ReadError")
         ELSE read_uint8(st, n)

\* read_bytes: read_uint8(stream, n).tobytes().
read_bytes(st, n) ==
    IF n = None
    THEN IF len(st) % 8 # 0 THEN Raise(st, "ReadError")
         ELSE read_uint8(st, len(st) \div 8)
    ELSE IF n > len(st) \div 8 THEN Raise(st, "ReadError")
         ELSE read_uint8(st, n)

\* read_uint16: each item is (byte << 8) + next byte, converted to uint16.
read_uint16(st, n) ==
    LET byte_index == st.read_offset \div 8
        bit_index == st.read_offset - 8 * byte_index
        item(i) == ToUint16(
            Shl(ByteAt(st.bytes, byte_index + 2 * i, bit_index), 8)
            + ByteAt(st.bytes, byte_index + 2 * i + 1, bit_index))
    IN  IF n = None
        THEN IF len(st) < 16 THEN Raise(st, "ReadError")
             ELSE Ok([st EXCEPT !.read_offset = st.read_offset + 16], << item(0) >>)
        ELSE IF len(st) < 16 * n THEN Raise(st, "ReadError")
             ELSE LET num_uint16s == Min(n, len(st) \div 16)
                  IN  Ok([st EXCEPT !.read_offset = st.read_offset + 16 * num_uint16s],
                         [i \in 1 .. num_uint16s |-> item(i - 1)])

\* read_int16: stream.read(numpy.uint16, n).astype("int16").
read_int16(st, n) ==
    LET r == read_uint16(st, n)
    IN  IF r.err # "none" THEN r
        ELSE Ok(r.st, [i \in 1 .. Len(r.val) |-> ToInt16(r.val[i])])

\* The digits of `count` consecutive bytes read from _bytes[idx] on:
\* value = value << 8; value += byte, for each byte.
Digits(bytes, idx, bit_index, count) ==
    [s \in 1 .. count |-> ByteAt(bytes, idx + (s - 1), bit_index)]

\* read_uint32.  With n None, and for each item of the aligned branch with
\* n given, the value is the four bytes.  In the unaligned branch with n
\* given the loop assigns `uint32 = ...` where the scalar branch has `+=`,
\* so that each item is the last of its four bytes alone.
read_uint32(st, n) ==
    LET byte_index == st.read_offset \div 8
        bit_index == st.read_offset - 8 * byte_index
        item(i) ==
            IF bit_index = 0 THEN Digits(st.bytes, byte_index + 4 * i, 0, 4)
            ELSE << 0, 0, 0, ByteAt(st.bytes, byte_index + 4 * i + 3, bit_index) >>
    IN  IF n = None
        THEN IF len(st) < 32 THEN Raise(st, "ReadError")
             ELSE Ok([st EXCEPT !.read_offset = st.read_offset + 32],
                     << Digits(st.bytes, byte_index, bit_index, 4) >>)
        ELSE IF len(st) < 32 * n THEN Raise(st, "ReadError")
             ELSE LET num_uint32s == Min(n, len(st) \div 32)
                  IN  Ok([st EXCEPT !.read_offset = st.read_offset + 32 * num_uint32s],
                         [i \in 1 .. num_uint32s |-> item(i - 1)])

\* read_int32: read_uint32(stream, n).astype("int32"), the same digits.
read_int32(st, n) == read_uint32(st, n)

\* What a shift of an int by 32 bits or more gives: the C standard leaves it
\* undefined; the value is shifted out, or the count is taken modulo 32.
WideShift == {"zero", "masked"}

\* The sum of two numbers of as many digits, modulo 256^digits.
AddDigits(a, b) ==
    LET k == Len(a)
        carry[i \in 1 .. k + 1] ==
            IF i = k + 1 THEN 0 ELSE (a[i] + b[i] + carry[i + 1]) \div 256
    IN  [i \in 1 .. k |-> (a[i] + b[i] + carry[i + 1]) % 256]

\* (_bytes[idx] << 56) + ... + (_bytes[idx+7]), a sum of ints converted to
\* unsigned long long: the low 32 bits, sign-extended.
IntSum64(bytes, idx, u) ==
    LET hi == Digits(bytes, idx, 0, 4)
        lo == Digits(bytes, idx + 4, 0, 4)
        low32 == IF u = "zero" THEN lo ELSE AddDigits(hi, lo)
        sign == IF low32[1] >= 128 THEN 255 ELSE 0
    IN  << sign, sign, sign, sign >> \o low32

\* read_uint64.  With n None the value is the eight bytes.  With n given,
\* the aligned branch shifts ints (u is what the wide shifts give) and the
\* unaligned branch assigns `uint64 = ...`, which keeps the last byte alone.
read_uint64(st, n, u) ==
    LET byte_index == st.read_offset \div 8
        bit_index == st.read_offset - 8 * byte_index
        item(i) ==
            IF bit_index = 0 THEN IntSum64(st.bytes, byte_index + 8 * i, u)
            ELSE << 0, 0, 0, 0, 0, 0, 0,
                    ByteAt(st.bytes, byte_index + 8 * i + 7, bit_index) >>
    IN  IF n = None
        THEN IF len(st) < 64 THEN Raise(st, "ReadError")
             ELSE Ok([st EXCEPT !.read_offset = st.read_offset + 64],
                     << Digits(st.bytes, byte_index, bit_index, 8) >>)
        ELSE IF len(st) < 64 * n THEN Raise(st, "ReadError")
             ELSE LET num_uint64s == Min(n, len(st) \div 64)
                  IN  Ok([st EXCEPT !.read_offset = st.read_offset + 64 * num_uint64s],
                         [i \in 1 .. num_uint64s |-> item(i - 1)])

\* read_int64: read_uint64(stream, n).astype("int64"), the same digits.
read_int64(st, n, u) == read_uint64(st, n, u)

\* read_float64: read_bytes(stream, 8 * n_) and struct.unpack(">d...").
read_float64(st, n) ==
    LET n_ == IF n = None THEN 1 ELSE n
        r == read_bytes(st, 8 * n_)
    IN  IF r.err # "none" THEN r
        ELSE Ok(r.st, [i \in 1 .. n_ |-> SubSeq(r.val, 8 * (i - 1) + 1, 8 * i)])

\* ------------------------------------------------------- BitStream codec
\* A read_bitstream that would hand over the whole buffer and the cursors.
read_bitstreamKeepHistory(source, n, sid) ==
    IF n # None /\ n > len(source) THEN Raise(source, "ReadError")
    ELSE LET num_bits == IF n = None THEN len(source) ELSE n
         IN  IF num_bits = 0 THEN Ok(source, cinit(sid))
             ELSE Ok([source EXCEPT !.read_offset = source.read_offset + num_bits],
                     [cinit(sid) EXCEPT
                         !.bytes = source.bytes,
                         !.read_offset = source.read_offset,
                         !.write_offset = source.read_offset + num_bits])

\* A read_bitstream that would not rebase the cursors on the bytes copied.
read_bitstreamAbsolute(source, n, sid) ==
    IF n # None /\ n > len(source) THEN Raise(source, "ReadError")
    ELSE LET num_bits == IF n = None THEN len(source) ELSE n
         IN  IF num_bits = 0 THEN Ok(source, cinit(sid))
             ELSE LET start_byte_index == source.read_offset \div 8
                      end_byte_index == (source.read_offset + num_bits - 1) \div 8
                      new_num_bytes == end_byte_index - start_byte_index + 1
                      sink == [cinit(sid) EXCEPT
                                 !.bytes = SubSeq(source.bytes, start_byte_index + 1,
                                                  start_byte_index + new_num_bytes),
                                 !.read_offset = source.read_offset,
                                 !.write_offset = source.read_offset + num_bits]
                  IN  Ok([source EXCEPT !.read_offset = source.read_offset + num_bits],
                         sink)

\* read_bitstream: the new stream `sink` (whose identity is sid) gets the
\* bytes that span the bits read.
read_bitstream(source, n, sid) ==
    IF n # None /\ n > len(source) THEN Raise(source, "ReadError")
    ELSE LET num_bits == IF n = None THEN len(source) ELSE n
         IN  IF num_bits = 0 THEN Ok(source, cinit(sid))
             ELSE LET start_byte_index == source.read_offset \div 8
                      end_byte_index == (source.read_offset + num_bits - 1) \div 8
                      new_num_bytes == end_byte_index - start_byte_index + 1
                      sink_ro == source.read_offset - 8 * start_byte_index
                      sink == [cinit(sid) EXCEPT
                                 !.bytes = SubSeq(source.bytes, start_byte_index + 1,
                                                  start_byte_index + new_num_bytes),
                                 !.read_offset = sink_ro,
                                 !.write_offset = sink_ro + num_bits]
                  IN  Ok([source EXCEPT !.read_offset = source.read_offset + num_bits],
                         sink)

\* A copy that would not put the read cursor back.
copyConsuming(st, n, sid) == read_bitstream(st, n, sid)

\* BitStream.copy: read_bitstream, then the read cursor is put back.
copy(st, n, sid) ==
    LET read_offset == st.read_offset
        r == read_bitstream(st, n, sid)
    IN  IF r.err # "none" THEN r
        ELSE Ok([r.st EXCEPT !.read_offset = read_offset], r.val)

\* A write_bitstream that would leave out the bits after the last whole byte.
write_bitstreamWholeBytes(sink, source, g) ==
    LET r1 == read_uint8(source, len(source) \div 8)
        w1 == write_uint8(sink, List(r1.val), g)
        r2 == read_bool(r1.st, len(r1.st))
    IN  << w1, r2.st >>

\* A write_bitstream that would read the source the way copy does, leaving
\* its read cursor where it was.
write_bitstreamPeek(sink, source, g) ==
    LET r1 == read_uint8(source, len(source) \div 8)
        w1 == write_uint8(sink, List(r1.val), g)
        r2 == read_bool(r1.st, len(r1.st))
        w2 == write_bool(w1, List(r2.val), g)
    IN  << w2, source >>

\* write_bitstream with two distinct streams: << sink, source >> afterwards.
write_bitstream(sink, source, g) ==
    LET r1 == read_uint8(source, len(source) \div 8)
        w1 == write_uint8(sink, List(r1.val), g)
        r2 == read_bool(r1.st, len(r1.st))
        w2 == write_bool(w1, List(r2.val), g)
    IN  << w2, r2.st >>

\* write_bitstream(stream, stream): the reads and the writes act on one stream.
write_bitstream_self(st, g) ==
    LET r1 == read_uint8(st, len(st) \div 8)
        w1 == write_uint8(r1.st, List(r1.val), g)
        r2 == read_bool(w1, len(w1))
    IN  write_bool(r2.st, List(r2.val), g)

\* ----------------------------------------------------- equality and hash
\* numpy's a1 == a2 on two 1-d arrays: elementwise when the lengths agree or
\* one of them is 1 (broadcasting), no result otherwise.
Broadcastable(a1, a2) == Len(a1) = Len(a2) \/ Len(a1) = 1 \/ Len(a2) = 1

ArrayEq(a1, a2) ==
    LET m == IF Len(a1) = 1 THEN Len(a2) ELSE Len(a1)
        at(a, i) == IF Len(a) = 1 THEN a[1] ELSE a[i]
    IN  [i \in 1 .. m |-> at(a1, i) = at(a2, i)]

All(bs) == \A i \in 1 .. Len(bs) : bs[i]

\* BitStream.__richcmp__ with operation 2 (==): "True", "False", or
\* "Error" when the comparison of the two arrays has no elementwise result.
eq(self, other) ==
    LET s1 == copy(self, None, 0).val
        s2 == copy(other, None, 0).val
        r1 == read_uint8(s1, len(s1) \div 8)
        r2 == read_uint8(s2, len(s2) \div 8)
        b1 == read_bool(r1.st, len(r1.st))
        b2 == read_bool(r2.st, len(r2.st))
    IN  IF ~Broadcastable(r1.val, r2.val) THEN "Error"
        ELSE IF All(ArrayEq(r1.val, r2.val)) /\ b1.val = b2.val
             THEN "True" ELSE "False"

\* operation 3 (!=): not equal.
ne(self, other) ==
    LET e == eq(self, other)
    IN  IF e = "Error" THEN "Error" ELSE IF e = "True" THEN "False" ELSE "True"

\* BitStream.__hash__: the hash of (sha1(uint8s).hexdigest(), tuple(bools)),
\* given by the pair it is computed from.
hash(self) ==
    LET c == copy(self, None, 0).val
        uint8s == read_uint8(c, len(self) \div 8)
        bools == read_bool(uint8s.st, len(uint8s.st))
    IN  << uint8s.val, bools.val >>

\* --------------------------------------------------------------- snapshots
\* A save that would push a snapshot whatever the top of the stack.
saveAlwaysPush(st, sid) ==
    LET state == NewState(sid, st.read_offset, st.write_offset, st.state_id + 1)
    IN  << [st EXCEPT !.state_id = st.state_id + 1,
                      !.states = Append(st.states, state)], state >>

\* BitStream.save: << stream afterwards, state returned >>.
save(st, sid) ==
    LET top == st.states[Len(st.states)]
    IN  IF top.read_offset # st.read_offset \/ top.write_offset # st.write_offset
        THEN LET state == NewState(sid, st.read_offset, st.write_offset,
                                   st.state_id + 1)
             IN  << [st EXCEPT !.state_id = st.state_id + 1,
                               !.states = Append(st.states, state)], state >>
        ELSE << st, top >>

\* The longest prefix of states that ends with an entry equal to state
\* (the loop of restore pops while the last entry differs); << >> if none.
RECURSIVE PopUntil(_, _)
PopUntil(states, state) ==
    IF states = << >> THEN << >>
    ELSE IF StateEq(state, states[Len(states)]) THEN states
         ELSE PopUntil(SubSeq(states, 1, Len(states) - 1), state)

\* A restore that would pop the entries of the stack itself, not of a copy.
restoreEager(st, sid, state) ==
    IF sid # state.stream THEN Raise(st, "ValueError")
    ELSE LET states == PopUntil(st.states, state)
         IN  IF states = << >>
             THEN Raise([st EXCEPT !.states = << st.states[1] >>], "ValueError")
             ELSE Ok([st EXCEPT !.read_offset = state.read_offset,
                                !.write_offset = state.write_offset,
                                !.states = states], << >>)

\* A restore that would take the snapshot off the stack (the first one kept).
restorePopping(st, sid, state) ==
    IF sid # state.stream THEN Raise(st, "ValueError")
    ELSE LET states == PopUntil(st.states, state)
         IN  IF states = << >> THEN Raise(st, "ValueError")
             ELSE Ok([st EXCEPT !.read_offset = state.read_offset,
                                !.write_offset = state.write_offset,
                                !.states = IF Len(states) = 1 THEN states
                                           ELSE SubSeq(states, 1, Len(states) - 1)],
                     << >>)

\* A restore that would put back the read cursor only.
restoreReadOnly(st, sid, state) ==
    IF sid # state.stream THEN Raise(st, "ValueError")
    ELSE LET states == PopUntil(st.states, state)
         IN  IF states = << >> THEN Raise(st, "ValueError")
             ELSE Ok([st EXCEPT !.read_offset = state.read_offset,
                                !.states = states], << >>)

\* BitStream.restore (sid is the identity of the stream st).
restore(st, sid, state) ==
    IF sid # state.stream THEN Raise(st, "ValueError")
    ELSE LET states == PopUntil(st.states, state)
         IN  IF states = << >> THEN Raise(st, "ValueError")
             ELSE Ok([st EXCEPT !.read_offset = state.read_offset,
                                !.write_offset = state.write_offset,
                                !.states = states], << >>)

\* ------------------------------------------------- the byte indices used
\* The number of bytes of one item of each type of 8 bits or more.
ItemBytes(type) ==
    CASE type \in {"uint8", "int8", "bytes"} -> 1
      [] type \in {"uint16", "int16"} -> 2
      [] type \in {"uint32", "int32"} -> 4
      [] type \in {"uint64", "int64", "float64"} -> 8

\* The highest index of _bytes that the writer of `type` assigns when it
\* writes k items at the write cursor of st (-1 when it assigns none): the
\* bit loop of write_bool, the aligned loops (the one of _write_int32 goes
\* by 2*i), and the unaligned loops, which also assign the next byte.
LastWritten(st, type, k) ==
    LET byte_index == st.write_offset \div 8
        bit_index == st.write_offset - 8 * byte_index
    IN  IF k = 0 THEN 0 - 1
        ELSE IF type = "bool" THEN (st.write_offset + k - 1) \div 8
        ELSE IF bit_index # 0 THEN byte_index + ItemBytes(type) * (k - 1) + ItemBytes(type)
        ELSE IF type = "int32" THEN byte_index + 2 * (k - 1) + 3
        ELSE byte_index + ItemBytes(type) * (k - 1) + ItemBytes(type) - 1

\* The highest index of _bytes that the reader of `type` reads for k items
\* at the read cursor of st (-1 when it reads none); the unaligned branches
\* also read the next byte.
LastRead(st, type, k) ==
    LET byte_index == st.read_offset \div 8
        bit_index == st.read_offset - 8 * byte_index
    IN  IF k = 0 THEN 0 - 1
        ELSE IF type = "bool" THEN (st.read_offset + k - 1) \div 8
        ELSE IF bit_index # 0 THEN byte_index + ItemBytes(type) * (k - 1) + ItemBytes(type)
        ELSE byte_index + ItemBytes(type) * (k - 1) + ItemBytes(type) - 1

\* read_bitstream(source, n) with 0 < num_bits <= len(source): the highest
\* index memcpy reads in the buffer of source, the highest it writes in the
\* buffer of sink, and the capacity sink._extend(8 * new_num_bytes) gives.
MemcpyBounds(source, num_bits, g) ==
    LET start_byte_index == source.read_offset \div 8
        end_byte_index == (source.read_offset + num_bits - 1) \div 8
        new_num_bytes == end_byte_index - start_byte_index + 1
    IN  [source_last |-> start_byte_index + new_num_bytes - 1,
         sink_last |-> new_num_bytes - 1,
         sink_num_bytes |-> num_bytes(extend(cinit(0), 8 * new_num_bytes, g))]

\* ------------------------------------------------------ write / read dispatch
\* The number of bits of one item of each built-in type.
Width(type) ==
    CASE type = "bool" -> 1
      [] type \in {"uint8", "int8", "bytes"} -> 8
      [] type \in {"uint16", "int16"} -> 16
      [] type \in {"uint32", "int32"} -> 32
      [] type \in {"uint64", "int64", "float64"} -> 64

\* BitStream.write with a built-in type identifier.
write(st, data, type, g) ==
    CASE type = "bool" -> write_bool(st, data, g)
      [] type = "uint8" -> write_uint8(st, data, g)
      [] type = "int8" -> write_int8(st, data, g)
      [] type = "bytes" -> write_bytes(st, data.items, g)
      [] type = "uint16" -> write_uint16(st, data, g)
      [] type = "int16" -> write_int16(st, data, g)
      [] type = "uint32" -> write_uint32(st, data, g)
      [] type = "int32" -> write_int32(st, data, g)
      [] type = "uint64" -> write_uint64(st, data, g)
      [] type = "int64" -> write_int64(st, data, g)
      [] type = "float64" -> write_float64(st, data, g)

\* BitStream.read with a built-in type identifier other than BitStream; u is
\* what the shifts of read_uint64 wider than an int give.
read(st, type, n, u) ==
    CASE type = "bool" -> read_bool(st, n)
      [] type = "uint8" -> read_uint8(st, n)
      [] type = "int8" -> read_int8(st, n)
      [] type = "bytes" -> read_bytes(st, n)
      [] type = "uint16" -> read_uint16(st, n)
      [] type = "int16" -> read_int16(st, n)
      [] type = "uint32" -> read_uint32(st, n)
      [] type = "int32" -> read_int32(st, n)
      [] type = "uint64" -> read_uint64(st, n, u)
      [] type = "int64" -> read_int64(st, n, u)
      [] type = "float64" -> read_float64(st, n)

\* ------------------------------------------------------------ the registry
\* A dictionary is a function of its keys.  dict.get(key) is "None" for a
\* key that is missing.
get(dict, key) == IF key \in DOMAIN dict THEN dict[key] ELSE "None"

\* dict[key] = value
setitem(dict, key, value) ==
    [k \in DOMAIN dict \cup {key} |-> IF k = key THEN value ELSE dict[k]]

\* A register that would store both of its arguments, given or not.
registerBoth(readers, writers, type, reader, writer) ==
    << setitem(readers, type, reader), setitem(writers, type, writer) >>

\* register(type, reader, writer): << _readers, _writers >> afterwards; an
\* argument that is omitted is "None".
register(readers, writers, type, reader, writer) ==
    << IF reader # "None" THEN setitem(readers, type, reader) ELSE readers,
       IF writer # "None" THEN setitem(writers, type, writer) ELSE writers >>

\* The dictionaries once the module is imported: the register(...) calls
\* that follow the definition of each built-in codec.
BuiltinReaders ==
    ("bool" :> "read_bool") @@ ("bool_" :> "read_bool")
    @@ ("uint8" :> "read_uint8") @@ ("int8" :> "read_int8")
    @@ ("uint16" :> "read_uint16") @@ ("int16" :> "read_int16")
    @@ ("uint32" :> "read_uint32") @@ ("int32" :> "read_int32")
    @@ ("uint64" :> "read_uint64") @@ ("int64" :> "read_int64")
    @@ ("float64" :> "read_float64") @@ ("float" :> "read_float64")
    @@ ("bytes" :> "read_bytes") @@ ("BitStream" :> "read_bitstream")

BuiltinWriters ==
    ("bool" :> "write_bool") @@ ("bool_" :> "write_bool")
    @@ ("uint8" :> "write_uint8") @@ ("int8" :> "write_int8")
    @@ ("uint16" :> "write_uint16") @@ ("int16" :> "write_int16")
    @@ ("uint32" :> "write_uint32") @@ ("int32" :> "write_int32")
    @@ ("uint64" :> "write_uint64") @@ ("int64" :> "write_int64")
    @@ ("float64" :> "write_float64") @@ ("float" :> "write_float64")
    @@ ("bytes" :> "write_bytes") @@ ("BitStream" :> "write_bitstream")

\* ----------------------------------------------- BitStream.write, as a whole
\* A type identifier: a type, an instance of a type (arg is what the instance
\* holds: the value of an int, the num_bits of a tag), or none (type=None).
Type(name) == [kind |-> "type", name |-> name, arg |-> 0]
Instance(name, arg) == [kind |-> "instance", name |-> name, arg |-> arg]
NoType == [kind |-> "none", name |-> "None", arg |-> 0]

\* The data of BitStream.write with its Python type py: builtins_type(data),
\* or builtins_type(data[0]) for a list; None; a stream is given by its
\* identity.
Value(py, v) == [list |-> FALSE, items |-> << v >>, py |-> py]
Bytes(string) == [list |-> FALSE, items |-> string, py |-> "bytes"]
Values(py, vs) == [list |-> TRUE, items |-> vs, py |-> py]
NoData == [list |-> FALSE, items |-> << >>, py |-> "NoneType"]

\* The identifiers the chain of `type is ...` tests of write and read knows.
BuiltIn ==
    { "bool", "uint8", "int8", "bytes", "BitStream", "uint16", "int16",
      "uint32", "int32", "uint64", "int64", "float", "float64" }

\* The writer the chain of tests of BitStream.write selects.
chain_writer(name) ==
    CASE name = "bool" -> "write_bool"
      [] name = "uint8" -> "write_uint8"
      [] name = "int8" -> "write_int8"
      [] name = "bytes" -> "write_bytes"
      [] name = "BitStream" -> "write_bitstream"
      [] name = "uint16" -> "write_uint16"
      [] name = "int16" -> "write_int16"
      [] name = "uint32" -> "write_uint32"
      [] name = "int32" -> "write_int32"
      [] name = "uint64" -> "write_uint64"
      [] name = "int64" -> "write_int64"
      [] name \in {"float", "float64"} -> "write_float64"

\* What the dispatch of a call selects: the codec to call (its name, "None"
\* when the call returns at once), the factory that made it ("None" without
\* one) and the instance given to the factory; err is "TypeError" when
\* there is no codec.
Found(codec, factory, instance) ==
    [err |-> "none", codec |-> codec, factory |-> factory, instance |-> instance]
Unsupported ==
    [err |-> "TypeError", codec |-> "None", factory |-> "None", instance |-> NoType]

\* A factory called with an instance: the codec it returns.
made(factory, instance) ==
    CASE factory = "write_uint_factory" -> "write_uint_bits"
      [] factory = "read_uint_factory" -> "read_uint_bits"

\* A write dispatch that would look into the registry first.
find_writerRegistryFirst(data, type, writers) ==
    LET auto_detect == type.kind = "none"
    IN  IF data.py = "NoneType" THEN Found("None", "None", NoType)
        ELSE IF auto_detect /\ data.list /\ data.items = << >>
        THEN Found("None", "None", NoType)
        ELSE LET id == IF auto_detect THEN Type(data.py) ELSE type
             IN  IF id.kind = "type" /\ get(writers, id.name) # "None"
                 THEN Found(get(writers, id.name), "None", NoType)
                 ELSE IF id.kind = "type" /\ id.name \in BuiltIn
                 THEN Found(chain_writer(id.name), "None", NoType)
                 ELSE Unsupported

\* A write dispatch that would return, without an error, when it finds no
\* writer.
find_writerSilent(data, type, writers) ==
    LET auto_detect == type.kind = "none"
    IN  IF data.py = "NoneType" THEN Found("None", "None", NoType)
        ELSE IF auto_detect /\ data.list /\ data.items = << >>
        THEN Found("None", "None", NoType)
        ELSE LET id == IF auto_detect THEN Type(data.py) ELSE type
             IN  IF id.kind = "type" /\ id.name \in BuiltIn
                 THEN Found(chain_writer(id.name), "None", NoType)
                 ELSE IF auto_detect \/ id.kind = "type"
                 THEN LET writer == get(writers, id.name)
                      IN  IF writer = "None" THEN Found("None", "None", NoType)
                          ELSE Found(writer, "None", NoType)
                 ELSE LET writer_factory == get(writers, id.name)
                      IN  IF writer_factory = "None" THEN Found("None", "None", NoType)
                          ELSE Found(made(writer_factory, id), writer_factory, id)

\* BitStream.write up to the call of the writer: no data, the detection of
\* the type, the chain of built-in identifiers, the dictionary of writers,
\* the factories.
find_writer(data, type, writers) ==
    LET auto_detect == type.kind = "none"
    IN  IF data.py = "NoneType" THEN Found("None", "None", NoType)
        ELSE IF auto_detect /\ data.list /\ data.items = << >>
        THEN Found("None", "None", NoType)
        ELSE LET id == IF auto_detect THEN Type(data.py) ELSE type
             IN  IF id.kind = "type" /\ id.name \in BuiltIn
                 THEN Found(chain_writer(id.name), "None", NoType)
                 ELSE IF auto_detect \/ id.kind = "type"
                 THEN LET writer == get(writers, id.name)
                      IN  IF writer = "None" THEN Unsupported
                          ELSE Found(writer, "None", NoType)
                 ELSE LET writer_factory == get(writers, id.name)
                      IN  IF writer_factory = "None" THEN Unsupported
                          ELSE Found(made(writer_factory, id), writer_factory, id)

\* The binary representation of a natural number, without leading zeros.
RECURSIVE Binary(_)
Binary(v) == IF v = 0 THEN << >> ELSE Append(Binary(v \div 2), v % 2)

\* The low num_bits bits of a natural number, most significant first.
LowBits(v, num_bits) == [i \in 1 .. num_bits |-> (v \div Pow2(num_bits - i)) % 2]

\* The writers of the documentation (mkdocs/custom.md): write_uint writes the
\* binary representation of each integer with stream.write(bools, bool), the
\* writer made by write_uint_factory(instance) its instance.num_bits low
\* bits; a negative integer raises ValueError.
RECURSIVE write_uint(_, _, _, _)
write_uint(st, items, num_bits, g) ==
    IF items = << >> THEN Ok(st, << >>)
    ELSE IF Head(items) < 0 THEN Raise(st, "ValueError")
    ELSE LET bools == IF num_bits = None THEN Binary(Head(items))
                      ELSE LowBits(Head(items), num_bits)
         IN  write_uint(write_bool(st, List(bools), g), Tail(items), num_bits, g)

\* The call writer(self, data): the streams afterwards.  A stream written
\* into another is given by its identity.
call_writer(f, ss, sid, data, g) ==
    LET st == ss[sid]
        one(r) == [r EXCEPT !.st = [ss EXCEPT ![sid] = r.st]]
        done(new) == Ok([ss EXCEPT ![sid] = new], << >>)
    IN  CASE f.codec = "None" -> Ok(ss, << >>)
          [] f.codec = "write_bool" -> done(write_bool(st, data, g))
          [] f.codec = "write_uint8" -> done(write_uint8(st, data, g))
          [] f.codec = "write_int8" -> done(write_int8(st, data, g))
          [] f.codec = "write_bytes" -> done(write_bytes(st, data.items, g))
          [] f.codec = "write_uint16" -> done(write_uint16(st, data, g))
          [] f.codec = "write_int16" -> done(write_int16(st, data, g))
          [] f.codec = "write_uint32" -> done(write_uint32(st, data, g))
          [] f.codec = "write_int32" -> done(write_int32(st, data, g))
          [] f.codec = "write_uint64" -> done(write_uint64(st, data, g))
          [] f.codec = "write_int64" -> done(write_int64(st, data, g))
          [] f.codec = "write_float64" -> done(write_float64(st, data, g))
          [] f.codec = "write_bitstream" ->
               LET source == data.items[1]
               IN  IF source = sid
                   THEN done(write_bitstream_self(st, g))
                   ELSE LET w == write_bitstream(st, ss[source], g)
                        IN  Ok([ss EXCEPT ![sid] = w[1], ![source] = w[2]], << >>)
          [] f.codec = "write_uint" -> one(write_uint(st, data.items, None, g))
          [] f.codec = "write_uint_bits" ->
               one(write_uint(st, data.items, f.instance.arg, g))

\* BitStream.write(data, type) on the stream sid: the streams afterwards and
\* the exception raised.
BitStream_write(ss, sid, data, type, writers, g) ==
    LET f == find_writer(data, type, writers)
    IN  IF f.err # "none" THEN Raise(ss, f.err)
        ELSE call_writer(f, ss, sid, data, g)

\* ------------------------------------------------ BitStream.read, as a whole
\* The reader the chain of tests of BitStream.read selects.
chain_reader(name) ==
    CASE name = "bool" -> "read_bool"
      [] name = "uint8" -> "read_uint8"
      [] name = "int8" -> "read_int8"
      [] name = "bytes" -> "read_bytes"
      [] name = "BitStream" -> "read_bitstream"
      [] name = "uint16" -> "read_uint16"
      [] name = "int16" -> "read_int16"
      [] name = "uint32" -> "read_uint32"
      [] name = "int32" -> "read_int32"
      [] name = "uint64" -> "read_uint64"
      [] name = "int64" -> "read_int64"
      [] name \in {"float", "float64"} -> "read_float64"

\* read(k) with an int k and no n is read(BitStream, k), and read() is
\* read(BitStream): the type and the count the dispatch goes on with.
read_type(type, n) ==
    IF (type.kind = "instance" /\ type.name = "int" /\ n = None) \/ type.kind = "none"
    THEN Type("BitStream") ELSE type
read_count(type, n) ==
    IF type.kind = "instance" /\ type.name = "int" /\ n = None THEN type.arg ELSE n

\* A read dispatch that would look into the registry first.
find_readerRegistryFirst(type, n, readers) ==
    LET id == read_type(type, n)
    IN  IF id.kind = "type" /\ get(readers, id.name) # "None"
        THEN Found(get(readers, id.name), "None", NoType)
        ELSE IF id.kind = "type" /\ id.name \in BuiltIn
        THEN Found(chain_reader(id.name), "None", NoType)
        ELSE Unsupported

\* BitStream.read up to the call of the reader.
find_reader(type, n, readers) ==
    LET id == read_type(type, n)
    IN  IF id.kind = "type" /\ id.name \in BuiltIn
        THEN Found(chain_reader(id.name), "None", NoType)
        ELSE IF id.kind = "type"
        THEN LET reader == get(readers, id.name)
             IN  IF reader = "None" THEN Unsupported
                 ELSE Found(reader, "None", NoType)
        ELSE LET reader_factory == get(readers, id.name)
             IN  IF reader_factory = "None" THEN Unsupported
                 ELSE Found(made(reader_factory, id), reader_factory, id)

\* The number a sequence of bits stands for, most significant bit first.
RECURSIVE Number(_)
Number(bits) ==
    IF bits = << >> THEN 0
    ELSE 2 * Number(SubSeq(bits, 1, Len(bits) - 1)) + bits[Len(bits)]

\* The readers of the documentation (mkdocs/custom.md).  read_uint accepts no
\* n and reads the whole stream, bit by bit, as one integer.
read_uint(st, n) ==
    IF n # None THEN Raise(st, "NotImplementedError")
    ELSE Ok([st EXCEPT !.read_offset = st.write_offset], << Number(str(st)) >>)

\* The reader made by read_uint_factory(instance): num_bits calls of
\* stream.read(bool) for each integer; the call that finds the stream empty
\* raises ReadError, the bits read before it being consumed.
read_uint_bits(st, n, num_bits) ==
    LET count == IF n = None THEN 1 ELSE n
        bits == str(st)
    IN  IF len(st) < num_bits * count
        THEN Raise([st EXCEPT !.read_offset = st.write_offset], "ReadError")
        ELSE Ok([st EXCEPT !.read_offset = st.read_offset + num_bits * count],
                [i \in 1 .. count |->
                    Number(SubSeq(bits, num_bits * (i - 1) + 1, num_bits * i))])

\* The call reader(self, n): the streams afterwards, the exception raised and
\* the value returned (for a stream, the identity `fresh` of the new object).
call_reader(f, ss, sid, n, u, fresh) ==
    LET st == ss[sid]
        one(r) == [r EXCEPT !.st = [ss EXCEPT ![sid] = r.st]]
    IN  CASE f.codec = "read_bool" -> one(read_bool(st, n))
          [] f.codec = "read_uint8" -> one(read_uint8(st, n))
          [] f.codec = "read_int8" -> one(read_int8(st, n))
          [] f.codec = "read_bytes" -> one(read_bytes(st, n))
          [] f.codec = "read_uint16" -> one(read_uint16(st, n))
          [] f.codec = "read_int16" -> one(read_int16(st, n))
          [] f.codec = "read_uint32" -> one(read_uint32(st, n))
          [] f.codec = "read_int32" -> one(read_int32(st, n))
          [] f.codec = "read_uint64" -> one(read_uint64(st, n, u))
          [] f.codec = "read_int64" -> one(read_int64(st, n, u))
          [] f.codec = "read_float64" -> one(read_float64(st, n))
          [] f.codec = "read_bitstream" ->
               LET r == read_bitstream(st, n, fresh)
               IN  IF r.err # "none" THEN Raise(ss, r.err)
                   ELSE Ok([ss EXCEPT ![sid] = r.st, ![fresh] = r.val], << fresh >>)
          [] f.codec = "read_uint" -> one(read_uint(st, n))
          [] f.codec = "read_uint_bits" -> one(read_uint_bits(st, n, f.instance.arg))

\* BitStream.read(type, n) on the stream sid.
BitStream_read(ss, sid, type, n, readers, u, fresh) ==
    LET f == find_reader(type, n, readers)
    IN  IF f.err # "none" THEN Raise(ss, f.err)
        ELSE call_reader(f, ss, sid, read_count(type, n), u, fresh)

\* ======================================================================
\* Spec: streams, their snapshots and their copies.
\* ======================================================================
\* streams: the stream objects; alive: the ones that exist; held: the states
\* save() returned to the client, each with the content of the stream at that
\* time; last: the last call and its outcome; ops: the number of calls made;
\* hist: the calls made so far (SpecFifo); _readers, _writers: the two
\* dictionaries of the registry.
VARIABLES streams, alive, held, last, ops, hist, _readers, _writers
vars == << streams, alive, held, last, ops, hist, _readers, _writers >>

\* The values realloc may leave in a new byte.
Garbage == {0, 255}

\* What the client writes: a type identifier and the data.
WriteChoices ==
    { [type |-> "bool", data |-> Scalar(1)],
      [type |-> "uint8", data |-> Scalar(65)] }

\* What the client reads: a type identifier and a count.
ReadChoices ==
    { [type |-> "bool", n |-> None],
      [type |-> "uint8", n |-> None] }

\* The counts given to copy and to read(BitStream, n).
CopyCounts == {None, 3}

Streams == 1 .. MaxStreams

\* The identity of the next stream object.
Fresh == CHOOSE sid \in Streams \ alive : \A o \in Streams \ alive : sid <= o

NoOp == [op |-> "init", sid |-> 0, err |-> "none", val |-> << >>, arg |-> << >>]
Did(op, sid, err, val, arg) ==
    [op |-> op, sid |-> sid, err |-> err, val |-> val, arg |-> arg]

Init ==
    /\ streams = [sid \in Streams |-> cinit(sid)]
    /\ alive = {1}
    /\ held = {}
    /\ last = NoOp
    /\ ops = 0
    /\ hist = << >>
    /\ _readers = BuiltinReaders
    /\ _writers = BuiltinWriters

Budget(max) ==
    /\ ops < max
    /\ ops' = ops + 1

\* BitStream(): one more stream.
DoNew ==
    /\ alive # Streams
    /\ alive' = alive \cup {Fresh}
    /\ streams' = [streams EXCEPT ![Fresh] = cinit(Fresh)]
    /\ last' = Did("new", Fresh, "none", << >>, << >>)
    /\ UNCHANGED << held, hist, _readers, _writers >>

\* stream.write(data, type)
DoWrite(sid, c, g) ==
    /\ sid \in alive
    /\ streams' = [streams EXCEPT ![sid] = write(streams[sid], c.data, c.type, g)]
    /\ last' = Did("write", sid, "none", << >>, c)
    /\ UNCHANGED << alive, held, hist, _readers, _writers >>

\* stream.read(type, n)
DoRead(sid, c) ==
    /\ sid \in alive
    /\ \E u \in WideShift :
         LET r == read(streams[sid], c.type, c.n, u)
         IN  /\ streams' = [streams EXCEPT ![sid] = r.st]
             /\ last' = Did("read", sid, r.err, r.val, c)
    /\ UNCHANGED << alive, held, hist, _readers, _writers >>

\* stream.read(BitStream, n): the stream returned is a new object.
DoReadStream(sid, n) ==
    /\ sid \in alive
    /\ alive # Streams
    /\ LET r == read_bitstream(streams[sid], n, Fresh)
       IN  /\ streams' = IF r.err = "none"
                         THEN [streams EXCEPT ![sid] = r.st, ![Fresh] = r.val]
                         ELSE streams
           /\ alive' = IF r.err = "none" THEN alive \cup {Fresh} ELSE alive
           /\ last' = Did("read_bitstream", sid, r.err, Fresh, n)
    /\ UNCHANGED << held, hist, _readers, _writers >>

\* stream.copy(n): the stream returned is a new object.
DoCopy(sid, n) ==
    /\ sid \in alive
    /\ alive # Streams
    /\ LET r == copy(streams[sid], n, Fresh)
       IN  /\ streams' = IF r.err = "none"
                         THEN [streams EXCEPT ![sid] = r.st, ![Fresh] = r.val]
                         ELSE streams
           /\ alive' = IF r.err = "none" THEN alive \cup {Fresh} ELSE alive
           /\ last' = Did("copy", sid, r.err, Fresh, n)
    /\ UNCHANGED << held, hist, _readers, _writers >>

\* sink.write(source, BitStream)
DoWriteStream(sink, source, g) ==
    /\ sink \in alive
    /\ source \in alive
    /\ streams' =
         IF sink = source
         THEN [streams EXCEPT ![sink] = write_bitstream_self(streams[sink], g)]
         ELSE LET w == write_bitstream(streams[sink], streams[source], g)
              IN  [streams EXCEPT ![sink] = w[1], ![source] = w[2]]
    /\ last' = Did("write_bitstream", sink, "none", << >>, source)
    /\ UNCHANGED << alive, held, hist, _readers, _writers >>

\* state = stream.save(); the client keeps the state, and the model records
\* next to it the content the stream has at that time, and in last the
\* height of the stack before the call.
DoSave(sid) ==
    /\ sid \in alive
    /\ LET r == save(streams[sid], sid)
       IN  /\ streams' = [streams EXCEPT ![sid] = r[1]]
           /\ held' = held \cup {[state |-> r[2], content |-> str(streams[sid])]}
           /\ last' = Did("save", sid, "none", r[2], Len(streams[sid].states))
    /\ UNCHANGED << alive, hist, _readers, _writers >>

\* stream.restore(state) with a state the client holds.
DoRestore(sid, h) ==
    /\ sid \in alive
    /\ h \in held
    /\ LET r == restore(streams[sid], sid, h.state)
       IN  /\ streams' = [streams EXCEPT ![sid] = r.st]
           /\ last' = Did("restore", sid, r.err, << >>, h)
    /\ UNCHANGED << alive, held, hist, _readers, _writers >>

New == Budget(MaxOps) /\ DoNew
Write(sid, c, g) == Budget(MaxOps) /\ DoWrite(sid, c, g)
Read(sid, c) == Budget(MaxOps) /\ DoRead(sid, c)
ReadStream(sid, n) == Budget(MaxOps) /\ DoReadStream(sid, n)
Copy(sid, n) == Budget(MaxOps) /\ DoCopy(sid, n)
WriteStream(sink, source, g) == Budget(MaxOps) /\ DoWriteStream(sink, source, g)
Save(sid) == Budget(MaxOps) /\ DoSave(sid)
Restore(sid, h) == Budget(MaxOps) /\ DoRestore(sid, h)

Next ==
    \/ New
    \/ \E sid \in Streams, c \in WriteChoices, g \in Garbage : Write(sid, c, g)
    \/ \E sid \in Streams, c \in ReadChoices : Read(sid, c)
    \/ \E sid \in Streams, n \in CopyCounts : ReadStream(sid, n)
    \/ \E sid \in Streams, n \in CopyCounts : Copy(sid, n)
    \/ \E sink \in Streams, source \in Streams, g \in Garbage :
          WriteStream(sink, source, g)
    \/ \E sid \in Streams : Save(sid)
    \/ \E sid \in Streams, h \in held : Restore(sid, h)

Spec == Init /\ [][Next]_vars

\* ======================================================================
\* SpecSnap: one stream, its snapshots and its copies, over longer runs.
\* ======================================================================
SnapWrite(c, g) == Budget(MaxSnapOps) /\ DoWrite(1, c, g)
SnapRead(c) == Budget(MaxSnapOps) /\ DoRead(1, c)
SnapCopy(n) == Budget(MaxSnapOps) /\ DoCopy(1, n)
SnapSave == Budget(MaxSnapOps) /\ DoSave(1)
SnapRestore(h) == Budget(MaxSnapOps) /\ DoRestore(1, h)

NextSnap ==
    \/ \E c \in WriteChoices, g \in Garbage : SnapWrite(c, g)
    \/ \E c \in ReadChoices : SnapRead(c)
    \/ \E n \in CopyCounts : SnapCopy(n)
    \/ SnapSave
    \/ \E h \in held : SnapRestore(h)

SpecSnap == Init /\ [][NextSnap]_vars

\* ======================================================================
\* SpecFifo: one stream that is written to and read from; hist is the
\* sequence of the calls made.
\* ======================================================================
Call(op, type, data, n) == [op |-> op, type |-> type, data |-> data, n |-> n]
WriteCall(type, data) == Call("write", type, data, None)
ReadCall(type, n) == Call("read", type, List(<< >>), n)

\* What the client of SpecFifo writes.
FifoWrites ==
    { [type |-> "bool", data |-> Scalar(1)],
      [type |-> "bool", data |-> Scalar(0)],
      [type |-> "int8", data |-> Scalar(-128)],
      [type |-> "bytes", data |-> List(<< 65, 66 >>)] }

FifoTypes == {"bool", "int8", "bytes"}
FifoCounts == {None, 1, 2}

\* The items written by the calls, in order, each with its type.
RECURSIVE Written(_)
Written(calls) ==
    IF calls = << >> THEN << >>
    ELSE LET c == calls[1]
         IN  (IF c.op = "write"
              THEN [i \in 1 .. Len(c.data.items) |->
                       [type |-> c.type, v |-> c.data.items[i]]]
              ELSE << >>) \o Written(Tail(calls))

\* The number of items the calls have read.
RECURSIVE NumRead(_)
NumRead(calls) ==
    IF calls = << >> THEN 0
    ELSE (IF calls[1].op = "read"
          THEN (IF calls[1].n = None THEN 1 ELSE calls[1].n)
          ELSE 0) + NumRead(Tail(calls))

\* The items written and not read yet.
Pending(calls) ==
    SubSeq(Written(calls), NumRead(calls) + 1, Len(Written(calls)))

FifoWrite(c, g) ==
    /\ Budget(MaxFifoOps)
    /\ streams' = [streams EXCEPT ![1] = write(streams[1], c.data, c.type, g)]
    /\ last' = Did("write", 1, "none", << >>, c)
    /\ hist' = Append(hist, WriteCall(c.type, c.data))
    /\ UNCHANGED << alive, held, _readers, _writers >>

\* read(type, n) when the next n items were written with that type.
FifoRead(type, n) ==
    /\ Budget(MaxFifoOps)
    /\ LET k == IF n = None THEN 1 ELSE n
           pending == Pending(hist)
       IN  /\ type = "bytes" => n # None
           /\ k <= Len(pending)
           /\ \A i \in 1 .. k : pending[i].type = type
    /\ \E u \in WideShift :
         LET r == read(streams[1], type, n, u)
         IN  /\ streams' = [streams EXCEPT ![1] = r.st]
             /\ last' = Did("read", 1, r.err, r.val, [type |-> type, n |-> n])
    /\ hist' = Append(hist, ReadCall(type, n))
    /\ UNCHANGED << alive, held, _readers, _writers >>

NextFifo ==
    \/ \E c \in FifoWrites, g \in Garbage : FifoWrite(c, g)
    \/ \E type \in FifoTypes, n \in FifoCounts : FifoRead(type, n)

SpecFifo == Init /\ [][NextFifo]_vars

\* ======================================================================
\* SpecCodec: on one stream, up to MaxPad bits are written and read, then
\* one value is written and read back with the same type.
\* ======================================================================
\* The values of at most 16 bits, as integers, and the byte strings.
CodecValues ==
    { [type |-> "bool", data |-> Scalar(v)] : v \in {0, 1} }
    \cup { [type |-> "uint8", data |-> Scalar(v)] : v \in {0, 1, 128, 165, 255} }
    \cup { [type |-> "int8", data |-> Scalar(v)] : v \in {-128, -91, -1, 1, 127} }
    \cup { [type |-> "uint16", data |-> Scalar(v)] :
             v \in {1, 256, 33023, 42330, 65535} }
    \cup { [type |-> "int16", data |-> Scalar(v)] :
             v \in {-32768, -23206, -1, 1, 32767} }
    \cup { [type |-> "bytes", data |-> List(v)] :
             v \in { << >>, << 65 >>, << 0, 255, 65 >> } }

\* The values of 32 and 64 bits, as their base-256 digits (the most
\* significant first; two's complement for the signed types, IEEE 754
\* binary64 for float64).
CodecWideValues ==
    { [type |-> t, data |-> Scalar(v)] :
             t \in {"uint32", "int32"},
             v \in { << 0, 0, 0, 1 >>, << 128, 0, 0, 0 >>, << 165, 90, 60, 195 >>,
                     << 255, 255, 255, 255 >> } }
    \cup { [type |-> t, data |-> Scalar(v)] :
             t \in {"uint64", "int64"},
             v \in { << 0, 0, 0, 0, 0, 0, 0, 1 >>, << 128, 0, 0, 0, 0, 0, 0, 0 >>,
                     << 1, 35, 69, 103, 137, 171, 205, 239 >>,
                     << 255, 255, 255, 255, 255, 255, 255, 255 >> } }
    \cup { [type |-> "float64", data |-> Scalar(v)] :
             v \in { << 63, 240, 0, 0, 0, 0, 0, 0 >>,
                     << 192, 4, 0, 0, 0, 0, 0, 0 >>,
                     << 63, 185, 153, 153, 153, 153, 153, 154 >> } }

\* write(b, bool) before the value.
CodecPad(b, g) ==
    /\ hist = << >>
    /\ streams[1].read_offset = 0
    /\ streams[1].write_offset < MaxPad
    /\ ops' = ops + 1
    /\ DoWrite(1, [type |-> "bool", data |-> Scalar(b)], g)

\* read(bool, n) of all the bits written before the value.
CodecSkip ==
    /\ hist = << >>
    /\ len(streams[1]) > 0
    /\ ops' = ops + 1
    /\ DoRead(1, [type |-> "bool", n |-> len(streams[1])])

\* write(v, T) on the stream, which is empty.
CodecWrite(c, g) ==
    /\ hist = << >>
    /\ len(streams[1]) = 0
    /\ ops' = ops + 1
    /\ streams' = [streams EXCEPT ![1] = write(streams[1], c.data, c.type, g)]
    /\ last' = Did("write", 1, "none", << >>, c)
    /\ hist' = << WriteCall(c.type, c.data) >>
    /\ UNCHANGED << alive, held, _readers, _writers >>

\* read(T) right after write(v, T).
CodecRead ==
    /\ Len(hist) = 1
    /\ ops' = ops + 1
    /\ \E u \in WideShift :
         LET r == read(streams[1], hist[1].type, None, u)
         IN  /\ streams' = [streams EXCEPT ![1] = r.st]
             /\ last' = Did("read", 1, r.err, r.val, hist[1])
    /\ hist' = Append(hist, ReadCall(hist[1].type, None))
    /\ UNCHANGED << alive, held, _readers, _writers >>

NextCodec ==
    \/ \E b \in {0, 1}, g \in Garbage : CodecPad(b, g)
    \/ CodecSkip
    \/ \E c \in CodecValues, g \in Garbage : CodecWrite(c, g)
    \/ \E c \in CodecWideValues, g \in Garbage : CodecWrite(c, g)
    \/ CodecRead

SpecCodec == Init /\ [][NextCodec]_vars

\* ======================================================================
\* SpecEq: two streams that are written to, read from and compared.
\* ======================================================================
EqWrites ==
    { [type |-> "bytes", data |-> List(<< 65 >>)],
      [type |-> "bool", data |-> Scalar(1)],
      [type |-> "bool", data |-> Scalar(0)] }

InitEq ==
    /\ streams = [sid \in Streams |-> cinit(sid)]
    /\ alive = {1, 2}
    /\ held = {}
    /\ last = NoOp
    /\ ops = 0
    /\ hist = << >>
    /\ _readers = BuiltinReaders
    /\ _writers = BuiltinWriters

EqWrite(sid, c, g) == Budget(MaxEqOps) /\ DoWrite(sid, c, g)
EqRead(sid, c) == Budget(MaxEqOps) /\ DoRead(sid, c)

\* a == b, a != b, hash(a) and hash(b); the streams are left as they are.
EqCompare(a, b) ==
    /\ Budget(MaxEqOps)
    /\ last' = Did("compare", a,
                   IF eq(streams[a], streams[b]) = "Error" THEN "Exception"
                   ELSE "none",
                   [eq |-> eq(streams[a], streams[b]),
                    ne |-> ne(streams[a], streams[b]),
                    hashes |-> << hash(streams[a]), hash(streams[b]) >>],
                   b)
    /\ UNCHANGED << streams, alive, held, hist, _readers, _writers >>

NextEq ==
    \/ \E sid \in {1, 2}, c \in EqWrites, g \in Garbage : EqWrite(sid, c, g)
    \/ \E sid \in {1, 2}, c \in ReadChoices : EqRead(sid, c)
    \/ \E a \in {1, 2}, b \in {1, 2} : EqCompare(a, b)

SpecEq == InitEq /\ [][NextEq]_vars

\* ======================================================================
\* SpecRead: reads of every built-in type from a short stream.
\* ======================================================================
\* What fills the stream: one bit, one byte, eight bytes.
ReadFills ==
    { [type |-> "bool", data |-> Scalar(1)],
      [type |-> "uint8", data |-> Scalar(165)],
      [type |-> "bytes", data |-> List(<< 1, 35, 69, 103, 137, 171, 205, 239 >>)] }

\* The built-in type identifiers of read, BitStream apart.
ReadTypes ==
    { "bool", "uint8", "int8", "bytes", "uint16", "int16",
      "uint32", "int32", "uint64", "int64", "float64" }

\* The counts given to read.
ReadCounts == {None, 0, 1, 2, 9}

Fill(c, g) == Budget(MaxReadOps) /\ DoWrite(1, c, g)
ReadItems(type, n) == Budget(MaxReadOps) /\ DoRead(1, [type |-> type, n |-> n])
ReadSub(n) == Budget(MaxReadOps) /\ DoReadStream(1, n)
ReadCopy(n) == Budget(MaxReadOps) /\ DoCopy(1, n)
Mark == Budget(MaxReadOps) /\ DoSave(1)

NextRead ==
    \/ \E c \in ReadFills, g \in Garbage : Fill(c, g)
    \/ \E type \in ReadTypes, n \in ReadCounts : ReadItems(type, n)
    \/ \E n \in ReadCounts : ReadSub(n)
    \/ \E n \in ReadCounts : ReadCopy(n)
    \/ Mark

SpecRead == Init /\ [][NextRead]_vars

\* ======================================================================
\* SpecWrite: BitStream.write(data, type) on two streams.
\* ======================================================================
\* A call of write: the data and the type identifier.
Arg(data, type) == [data |-> data, type |-> type]

\* Data whose items are bools, 8-bit and 16-bit integers, bytes or streams.
DataChoices ==
    { Arg(Value("bool", 1), NoType), Arg(Value("bool", 0), Type("bool")),
      Arg(Values("bool", << 1, 0, 1 >>), NoType),
      Arg(Value("int", 165), Type("uint8")), Arg(Value("int", 500), Type("uint8")),
      Arg(Value("int", -1), Type("uint8")), Arg(Value("uint8", 7), NoType),
      Arg(Values("int", << 1, 500 >>), Type("uint8")),
      Arg(Value("int", -1), Type("int8")), Arg(Value("int", 200), Type("int8")),
      Arg(Values("int", << -128, 127 >>), Type("int8")),
      Arg(Value("int", 1024), Type("uint16")), Arg(Value("int", 70000), Type("uint16")),
      Arg(Values("int", << 258, 65535 >>), Type("uint16")),
      Arg(Value("int", -2), Type("int16")), Arg(Value("int", 40000), Type("int16")),
      Arg(Values("int", << -32768, 1 >>), Type("int16")),
      Arg(Bytes(<< 65, 66 >>), NoType), Arg(Bytes(<< >>), Type("bytes")),
      Arg(Values("list", << >>), NoType), Arg(Values("list", << >>), Type("uint16")),
      Arg(NoData, NoType), Arg(NoData, Type("uint8")),
      Arg(Value("BitStream", 2), Type("BitStream")), Arg(Value("BitStream", 2), NoType),
      Arg(Value("int", 5), NoType) }

\* Data whose items are 32-bit and 64-bit integers (within the range of a C
\* long long, which numpy converts) and float64s, given by their digits.
WideDataChoices ==
    { Arg(Value("int", << 1 >>), Type("uint32")),
      Arg(Value("int", << 1, 0, 0, 0, 1 >>), Type("uint32")),
      Arg(Value("int", << 255 >>), Type("uint32")),
      Arg(Values("int", << << 1, 35, 69, 103 >>, << 2 >> >>), Type("uint32")),
      Arg(Value("int", << 255 >>), Type("int32")),
      Arg(Value("int", << 0, 128, 0, 0, 1 >>), Type("int32")),
      Arg(Values("int", << << 128, 0, 0, 0 >>, << 3 >> >>), Type("int32")),
      Arg(Value("int", << 1, 35, 69, 103, 137, 171, 205, 239 >>), Type("uint64")),
      Arg(Value("int", << 255 >>), Type("uint64")),
      Arg(Values("int", << << 1 >>, << 2 >> >>), Type("uint64")),
      Arg(Value("int", << 254 >>), Type("int64")),
      Arg(Values("int", << << 128, 0, 0, 0, 0, 0, 0, 0 >>, << 5 >> >>), Type("int64")),
      Arg(Value("float", << 63, 240, 0, 0, 0, 0, 0, 0 >>), NoType),
      Arg(Value("float", << 192, 4, 0, 0, 0, 0, 0, 0 >>), Type("float64")),
      Arg(Values("float", << << 63, 240, 0, 0, 0, 0, 0, 0 >>,
                             << 64, 0, 0, 0, 0, 0, 0, 0 >> >>), Type("float")) }

\* What is written into the second stream.
FeedChoices ==
    { Arg(Value("bool", 1), NoType), Arg(Value("int", 165), Type("uint8")) }

\* streams[sid].write(c.data, c.type); last.val is what the dispatch selects.
DoWriteData(sid, c, g) ==
    /\ sid \in alive
    /\ LET r == BitStream_write(streams, sid, c.data, c.type, _writers, g)
       IN  /\ streams' = r.st
           /\ last' = Did("write", sid, r.err, find_writer(c.data, c.type, _writers), c)
    /\ UNCHANGED << alive, held, hist, _readers, _writers >>

WriteData(c, g) == Budget(MaxWriteOps) /\ DoWriteData(1, c, g)
Feed(c, g) == Budget(MaxWriteOps) /\ DoWriteData(2, c, g)
Drop(sid) == Budget(MaxWriteOps) /\ DoRead(sid, [type |-> "bool", n |-> None])

NextWrite ==
    \/ \E c \in DataChoices, g \in Garbage : WriteData(c, g)
    \/ \E c \in WideDataChoices, g \in Garbage : WriteData(c, g)
    \/ \E c \in FeedChoices, g \in Garbage : Feed(c, g)
    \/ \E sid \in {1, 2} : Drop(sid)

SpecWrite == InitEq /\ [][NextWrite]_vars

\* ======================================================================
\* SpecSub: two streams, filled and read bit by bit and byte by byte, and
\* written one into the other.
\* ======================================================================
SubFeed(sid, c, g) == Budget(MaxSubOps) /\ DoWrite(sid, c, g)
SubSkip(sid) == Budget(MaxSubOps) /\ DoRead(sid, [type |-> "bool", n |-> None])
SubWrite(sink, source, g) == Budget(MaxSubOps) /\ DoWriteStream(sink, source, g)

NextSub ==
    \/ \E sid \in {1, 2}, c \in WriteChoices, g \in Garbage : SubFeed(sid, c, g)
    \/ \E sid \in {1, 2} : SubSkip(sid)
    \/ \E sink \in {1, 2}, source \in {1, 2}, g \in Garbage : SubWrite(sink, source, g)

SpecSub == InitEq /\ [][NextSub]_vars

\* ======================================================================
\* SpecReg: the client registers readers and writers, writes and reads with
\* built-in, registered and unregistered identifiers.
\* ======================================================================
\* register(type, reader, writer): codecs for the Python int, factories for
\* the class uint (whose instances hold num_bits), codecs under the built-in
\* identifier uint8, and calls that give only one of the two, or none.
Registration(type, reader, writer) == [type |-> type, reader |-> reader, writer |-> writer]

RegChoices ==
    { Registration("int", r, w) :
          r \in {"None", "read_uint", "read_uint8"}, w \in {"None", "write_uint", "write_uint8"} }
    \cup { Registration("uint", r, w) :
          r \in {"None", "read_uint_factory"}, w \in {"None", "write_uint_factory"} }
    \cup { Registration("uint8", "read_uint", "write_uint") }

\* The num_bits of the instances of uint.
NumBits == 3

RegData ==
    { Arg(Value("int", 5), NoType),
      Arg(Value("int", 5), Type("int")),
      Arg(Values("int", << 2, 3 >>), NoType),
      Arg(Value("int", 0 - 1), Type("int")),
      Arg(NoData, Type("int")),
      Arg(Value("int", 5), Instance("uint", NumBits)),
      Arg(Value("int", 65), Type("uint8")),
      Arg(Value("bool", 1), NoType) }

RegTypes ==
    { Type("bool"), Type("uint8"), Type("int"), Instance("uint", NumBits), NoType }

RegCounts == {None, 1, 2}

\* read(type, n), and read(2) with the number of bits in the place of the type.
RegReads ==
    { [type |-> type, n |-> n] : type \in RegTypes, n \in RegCounts }
    \cup { [type |-> Instance("int", 2), n |-> None] }

Register(c) ==
    /\ Budget(MaxRegOps)
    /\ LET r == register(_readers, _writers, c.type, c.reader, c.writer)
       IN  /\ _readers' = r[1]
           /\ _writers' = r[2]
    /\ last' = Did("register", 0, "none", << >>, c)
    /\ UNCHANGED << streams, alive, held, hist >>

RegWrite(c, g) == Budget(MaxRegOps) /\ DoWriteData(1, c, g)

\* streams[1].read(type, n); last.val is what the dispatch selects.
RegRead(type, n, u) ==
    /\ Budget(MaxRegOps)
    /\ LET f == find_reader(type, n, _readers)
           sub == f.codec = "read_bitstream"
           fresh == IF alive = Streams THEN 0 ELSE Fresh
           r == BitStream_read(streams, 1, type, n, _readers, u, fresh)
       IN  /\ sub => alive # Streams
           /\ streams' = r.st
           /\ alive' = IF sub /\ r.err = "none" THEN alive \cup {fresh} ELSE alive
           /\ last' = Did("read", 1, r.err, f, [type |-> type, n |-> n])
    /\ UNCHANGED << held, hist, _readers, _writers >>

NextReg ==
    \/ \E c \in RegChoices : Register(c)
    \/ \E c \in RegData, g \in Garbage : RegWrite(c, g)
    \/ \E c \in RegReads, u \in WideShift : RegRead(c.type, c.n, u)

SpecReg == Init /\ [][NextReg]_vars

\* ======================================================================
\* SpecSeq: up to MaxPad bits are written to the first stream and some of
\* them read, some bits are written to the second, then one write of
\* DataChoices or WideDataChoices is made on the first stream.
\* ======================================================================
\* write(b, bool) before the write; the bits alternate.
SeqPad(b, g) ==
    /\ hist = << >>
    /\ streams[1].read_offset = 0
    /\ streams[1].write_offset < MaxPad
    /\ streams[1].write_offset > 0
       => b # BitAt(streams[1].bytes, streams[1].write_offset - 1)
    /\ DoWriteData(1, Arg(Value("bool", b), Type("bool")), g)
    /\ UNCHANGED ops

\* read(bool, n) before the write.
SeqSkip(n) ==
    /\ hist = << >>
    /\ streams[1].read_offset = 0
    /\ n <= len(streams[1])
    /\ DoRead(1, [type |-> "bool", n |-> n])
    /\ UNCHANGED ops

\* What is written to the second stream: one bit, or one byte and two bits.
SeqFeeds ==
    { Arg(Value("bool", 1), NoType),
      Arg(Values("bool", << 1, 0, 1, 1, 0, 0, 1, 0, 1, 1 >>), NoType) }

\* One write to the second stream.
SeqFeed(c, g) ==
    /\ hist = << >>
    /\ streams[2].write_offset = 0
    /\ DoWriteData(2, c, g)
    /\ UNCHANGED ops

\* More lists of 32-bit and 64-bit integers, given by their digits.
SeqLists ==
    { Arg(Values("int", << << 1 >>, << 2 >> >>), Type("int32")),
      Arg(Values("int", << << 1 >>, << 2 >>, << 1, 35, 69, 103 >> >>), Type("uint32")),
      Arg(Values("int", << << 1 >>, << 2 >> >>), Type("int64")) }

\* The write: streams[1].write(c.data, c.type).
SeqWrite(c, g) ==
    /\ hist = << >>
    /\ hist' = << c >>
    /\ LET r == BitStream_write(streams, 1, c.data, c.type, _writers, g)
       IN  /\ streams' = r.st
           /\ last' = Did("write", 1, r.err, find_writer(c.data, c.type, _writers), c)
    /\ UNCHANGED << alive, held, ops, _readers, _writers >>

NextSeq ==
    \/ \E b \in {0, 1}, g \in Garbage : SeqPad(b, g)
    \/ \E n \in 1 .. MaxPad : SeqSkip(n)
    \/ \E c \in SeqFeeds, g \in Garbage : SeqFeed(c, g)
    \/ \E c \in DataChoices, g \in Garbage : SeqWrite(c, g)
    \/ \E c \in WideDataChoices, g \in Garbage : SeqWrite(c, g)
    \/ \E c \in SeqLists, g \in Garbage : SeqWrite(c, g)

SpecSeq == InitEq /\ [][NextSeq]_vars

\* ======================================================================
\* SpecMany: a stream made of 17 bytes, 0 to 7 bits of which are read, and
\* then one read(T, n).
\* ======================================================================
ManyFills ==
    { [type |-> "bytes",
       data |-> List(<< 1, 35, 69, 103, 137, 171, 205, 239, 254, 220, 186, 152,
                        118, 84, 50, 16, 129 >>)],
      [type |-> "bytes",
       data |-> List(<< 255, 128, 0, 127, 165, 90, 60, 195, 63, 240, 0, 0,
                        0, 0, 0, 1, 254 >>)] }

\* The counts given to read.
ManyCounts == {None, 1, 2}

\* write(b"...", bytes) on the new stream.
ManyFill(c, g) ==
    /\ ops = 0
    /\ ops' = 1
    /\ DoWrite(1, c, g)

\* read(bool, n) of the first bits.
ManySkip(n) ==
    /\ ops = 1
    /\ ops' = 2
    /\ DoRead(1, [type |-> "bool", n |-> n])

\* read(type, n)
ManyRead(type, n) ==
    /\ ops \in {1, 2}
    /\ ops' = 3
    /\ DoRead(1, [type |-> type, n |-> n])

NextMany ==
    \/ \E c \in ManyFills, g \in Garbage : ManyFill(c, g)
    \/ \E n \in 1 .. MaxPad : ManySkip(n)
    \/ \E type \in ReadTypes, n \in ManyCounts : ManyRead(type, n)

SpecMany == Init /\ [][NextMany]_vars

\* ======================================================================
\* SpecStale: up to MaxPad bits are written, the stream is saved, more is
\* written, the snapshot is restored and one write is made.
\* ======================================================================
\* What is written after save() and discarded by restore().
StaleChoices ==
    { Arg(Bytes(<< 255 >>), NoType),
      Arg(Bytes([i \in 1 .. 17 |-> 255]), NoType),
      Arg(Bytes([i \in 1 .. 17 |-> 90]), NoType) }

StalePad(b, g) ==
    /\ ops = 0
    /\ streams[1].write_offset < MaxPad
    /\ streams[1].write_offset > 0
       => b # BitAt(streams[1].bytes, streams[1].write_offset - 1)
    /\ DoWriteData(1, Arg(Value("bool", b), Type("bool")), g)
    /\ UNCHANGED ops

StaleSave ==
    /\ ops = 0
    /\ ops' = 1
    /\ DoSave(1)

StaleMore(c, g) ==
    /\ ops = 1
    /\ ops' = 2
    /\ DoWriteData(1, c, g)

StaleRestore(h) ==
    /\ ops = 2
    /\ ops' = 3
    /\ DoRestore(1, h)

StaleWrite(c, g) ==
    /\ ops = 3
    /\ ops' = 4
    /\ DoWriteData(1, c, g)

NextStale ==
    \/ \E b \in {0, 1}, g \in Garbage : StalePad(b, g)
    \/ StaleSave
    \/ \E c \in StaleChoices, g \in Garbage : StaleMore(c, g)
    \/ \E h \in held : StaleRestore(h)
    \/ \E c \in DataChoices, g \in Garbage : StaleWrite(c, g)
    \/ \E c \in WideDataChoices, g \in Garbage : StaleWrite(c, g)
    \/ \E c \in SeqLists, g \in Garbage : StaleWrite(c, g)

SpecStale == InitEq /\ [][NextStale]_vars

\* ======================================================================
\* Properties of snapshots (SpecSnap).
\* ======================================================================
\* The state is one of the entries of the stream's snapshot stack.
InStack(st, state) == \E i \in 1 .. Len(st.states) : st.states[i] = state

\* The stream the last call was made on, before and after the call.
Before == streams[last'.sid]
After == streams'[last'.sid]

\* C1: restore(s), with s in the snapshot stack of the stream, succeeds and
\* puts both cursors back to the values recorded at save(); the content the
\* stream then exposes is exactly the content it had when s was saved.
C1_RestoreReturnsToSnapshot ==
    [][ (last'.op = "restore" /\ InStack(Before, last'.arg.state))
        => /\ last'.err = "none"
           /\ After.read_offset = last'.arg.state.read_offset
           /\ After.write_offset = last'.arg.state.write_offset
           /\ str(After) = last'.arg.content ]_vars

\* A snapshot taken after a read, with content left, was restored after a
\* whole byte was written past it.
C1_Witness ==
    /\ last.op = "restore"
    /\ last.err = "none"
    /\ Len(last.arg.content) > 0
    /\ streams[last.sid].read_offset = last.arg.state.read_offset
    /\ 8 * num_bytes(streams[last.sid]) >= streams[last.sid].write_offset + 8
    /\ last.arg.state.read_offset > 0

\* C2: a snapshot that left the stack (an older one was restored) never
\* comes back into it, and every later restore of it raises ValueError,
\* whatever the cursors and the snapshots taken since.
C2_InvalidatedForGood ==
    [][ \A h \in held :
          ~InStack(streams[h.state.stream], h.state)
          => /\ ~InStack(streams'[h.state.stream], h.state)
             /\ (last'.op = "restore" /\ last'.arg = h)
                => last'.err = "ValueError" ]_vars

\* The restore of an invalidated snapshot failed although the cursors are
\* the ones it recorded and a snapshot taken since, with the same cursors,
\* is on top of the stack.
C2_Witness ==
    /\ last.op = "restore"
    /\ last.err = "ValueError"
    /\ last.arg.state.stream = last.sid
    /\ LET st == streams[last.sid]
           top == st.states[Len(st.states)]
       IN  /\ st.read_offset = last.arg.state.read_offset
           /\ st.write_offset = last.arg.state.write_offset
           /\ top.read_offset = st.read_offset
           /\ top.write_offset = st.write_offset
           /\ top.id > last.arg.state.id

\* ======================================================================
\* Properties of streams and their copies (Spec).
\* ======================================================================
\* The reference encoding: the w bits of the integer v, most significant
\* bit first (two's complement for a negative v).
BitsOf(v, w) == [i \in 1 .. w |-> (v \div Pow2(w - i)) % 2]

RECURSIVE Concat(_)
Concat(seqs) == IF seqs = << >> THEN << >> ELSE seqs[1] \o Concat(Tail(seqs))

\* The bits of one item of a type: a bool is one bit, an 8-bit or 16-bit
\* integer its binary representation, a wider value the bits of its base-256
\* digits.
ItemBits(type, v) ==
    CASE type = "bool" -> << IF v # 0 THEN 1 ELSE 0 >>
      [] type \in {"uint8", "int8", "bytes"} -> BitsOf(v, 8)
      [] type \in {"uint16", "int16"} -> BitsOf(v, 16)
      [] OTHER -> Concat([i \in 1 .. Len(v) |-> BitsOf(v[i], 8)])

\* The bits a write of the data with the type appends.
Encode(c) ==
    Concat([i \in 1 .. Len(c.data.items) |-> ItemBits(c.type, c.data.items[i])])

\* C3: in every state of every stream, the ones copy and read(BitStream)
\* return included, 0 <= read_offset <= write_offset <= 8 * capacity.
C3_CursorOrder ==
    \A sid \in Streams :
        /\ 0 <= streams[sid].read_offset
        /\ streams[sid].read_offset <= streams[sid].write_offset
        /\ streams[sid].write_offset <= 8 * num_bytes(streams[sid])

\* A stream returned by copy or read(BitStream) whose read cursor is inside
\* its first byte and whose write cursor is inside its last one, taken from
\* a stream whose read cursor has passed a whole byte.
C3_Witness ==
    /\ last.op \in {"copy", "read_bitstream"}
    /\ last.err = "none"
    /\ streams[last.sid].read_offset > 8
    /\ streams[last.val].read_offset > 0
    /\ streams[last.val].write_offset > streams[last.val].read_offset
    /\ streams[last.val].write_offset < 8 * num_bytes(streams[last.val])

\* C9: c = stream.copy(n) leaves the cursors, the buffer and the snapshot
\* stack of the stream as they were; the content of c is the first n
\* remaining bits of the stream (all of them when n is omitted), and
\* c == stream right after stream.copy().
C9_CopyNonDestructive ==
    [][ (last'.op = "copy" /\ last'.err = "none")
        => LET c == streams'[last'.val]
               n == IF last'.arg = None THEN len(Before) ELSE last'.arg
           IN  /\ After = Before
               /\ held' = held
               /\ str(c) = SubSeq(str(Before), 1, n)
               /\ last'.arg = None => eq(c, After) = "True" ]_vars

\* A whole copy of a stream that has been read from, has bits left and
\* holds a snapshot.
C9_Witness ==
    /\ last.op = "copy"
    /\ last.err = "none"
    /\ last.arg = None
    /\ streams[last.sid].read_offset > 0
    /\ len(streams[last.sid]) > 8
    /\ Len(streams[last.sid].states) > 1
    /\ str(streams[last.val]) = str(streams[last.sid])

\* C10: restore of a snapshot of another stream (a copy included) or of an
\* invalidated snapshot raises ValueError and leaves every stream and every
\* snapshot as before the call; a write that follows appends to the content
\* the stream had.
C10_FailedRestoreChangesNothing ==
    [][ /\ (/\ last'.op = "restore"
            /\ \/ last'.arg.state.stream # last'.sid
               \/ ~InStack(Before, last'.arg.state))
           => last'.err = "ValueError"
        /\ (last'.op = "restore" /\ last'.err # "none")
           => /\ last'.err = "ValueError"
              /\ streams' = streams
              /\ alive' = alive
              /\ held' = held
        /\ (/\ last.op = "restore"
            /\ last.err = "ValueError"
            /\ last'.op = "write"
            /\ last'.sid = last.sid)
           => str(After) = str(Before) \o Encode(last'.arg) ]_vars

\* A stream with content and a snapshot of its own refused the snapshot of
\* the stream it is a copy of.
C10_Witness ==
    /\ last.op = "restore"
    /\ last.err = "ValueError"
    /\ last.arg.state.stream # last.sid
    /\ len(streams[last.sid]) > 0
    /\ Len(streams[last.sid].states) > 1
    /\ str(streams[last.sid]) = str(streams[last.arg.state.stream])

\* ======================================================================
\* First-in first-out at bit granularity (SpecFifo).
\* ======================================================================
\* The first k items written and not read yet.
Front(k) == SubSeq(Pending(hist), 1, k)

\* The four writes and the three reads of the overview.
Overview ==
    << WriteCall("bool", Scalar(1)), WriteCall("bool", Scalar(0)),
       WriteCall("int8", Scalar(-128)), WriteCall("bytes", List(<< 65, 66 >>)),
       ReadCall("bool", 2), ReadCall("int8", 1), ReadCall("bytes", 2) >>

OverviewContent ==
    << << >>,
       << 1 >>,
       << 1, 0 >>,
       << 1, 0, 1, 0, 0, 0, 0, 0, 0, 0 >>,
       << 1, 0, 1, 0, 0, 0, 0, 0, 0, 0, 0, 1, 0, 0, 0, 0, 0, 1,
          0, 1, 0, 0, 0, 0, 1, 0 >>,
       << 1, 0, 0, 0, 0, 0, 0, 0, 0, 1, 0, 0, 0, 0, 0, 1,
          0, 1, 0, 0, 0, 0, 1, 0 >>,
       << 0, 1, 0, 0, 0, 0, 0, 1, 0, 1, 0, 0, 0, 0, 1, 0 >>,
       << >> >>

OverviewValues ==
    << << >>, << >>, << >>, << >>, << 1, 0 >>, << -128 >>, << 65, 66 >> >>

\* C4: a write appends the bits of its items to the content; a read with
\* the type of the next items returns the values written and removes their
\* bits, and only them, from the front of the content.  The writes and the
\* reads of the overview give the contents and the values it lists.
C4_FirstInFirstOut ==
    /\ [][ /\ last'.op = "write"
              => str(After) = str(Before) \o Encode(last'.arg)
           /\ last'.op = "read"
              => LET k == IF last'.arg.n = None THEN 1 ELSE last'.arg.n
                     w == k * Width(last'.arg.type)
                 IN  /\ last'.err = "none"
                     /\ last'.val = [i \in 1 .. k |-> Front(k)[i].v]
                     /\ w <= len(Before)
                     /\ str(After) = SubSeq(str(Before), w + 1, len(Before))
                     /\ After.bytes = Before.bytes ]_vars
    /\ [](hist = SubSeq(Overview, 1, Len(hist))
          => /\ str(streams[1]) = OverviewContent[Len(hist) + 1]
             /\ hist # << >> => last.val = OverviewValues[Len(hist)])

\* The overview has been run to its end: the last read returned b"AB" and
\* the stream is empty.
C4_Witness ==
    /\ hist = Overview
    /\ last.op = "read"
    /\ last.val = << 65, 66 >>
    /\ len(streams[1]) = 0
    /\ streams[1].read_offset = 26

\* ======================================================================
\* Round trips (SpecCodec).
\* ======================================================================
\* The position of the write cursor before the value was written.
CodecStart ==
    streams[1].write_offset - Width(hist[1].type) * Len(hist[1].data.items)

\* C5: on a stream just created, write(v, T) followed by read(T) returns v
\* and leaves the stream empty, for every built-in type T.
C5_RoundTripFresh ==
    (Len(hist) = 2 /\ CodecStart = 0)
    => /\ last.err = "none"
       /\ last.val = hist[1].data.items
       /\ len(streams[1]) = 0

\* A 64-bit signed integer with its sign bit set came back from a stream
\* just created.
C5_Witness ==
    /\ Len(hist) = 2
    /\ CodecStart = 0
    /\ hist[1].type = "int64"
    /\ last.op = "read"
    /\ last.val = << << 128, 0, 0, 0, 0, 0, 0, 0 >> >>
    /\ streams[1].read_offset = 64

\* C6: at every bit offset from 0 to 7, both cursors being there, writing
\* one integer of 8, 16, 32 or 64 bits, signed or not, and reading one
\* value of the same type gives the integer back.
C6_RoundTripAnyOffset ==
    (/\ Len(hist) = 2
     /\ hist[1].type \in {"uint8", "int8", "uint16", "int16",
                          "uint32", "int32", "uint64", "int64"})
    => /\ last.err = "none"
       /\ last.val = hist[1].data.items

\* ======================================================================
\* Equality and hash (SpecEq).
\* ======================================================================
\* C7: a == b exactly when the bits between the cursors of a are the bits
\* between the cursors of b, and a != b exactly when they are not.
C7_EqualIffSameContent ==
    last.op = "compare"
    => LET same == str(streams[last.sid]) = str(streams[last.arg])
       IN  /\ last.val.eq = (IF same THEN "True" ELSE "False")
           /\ last.val.ne = (IF same THEN "False" ELSE "True")

\* C8: a == b implies hash(a) == hash(b).
C8_HashConsistent ==
    (last.op = "compare" /\ last.val.eq = "True")
    => last.val.hashes[1] = last.val.hashes[2]

\* ======================================================================
\* More properties of snapshots (SpecSnap).
\* ======================================================================
\* C11: save() with the cursors of the top snapshot returns that snapshot
\* and leaves the stack and the counter as they are; otherwise it pushes one
\* snapshot with the current cursors and an id above every id given before
\* on the stream.  The cursors and the buffer are never changed.
C11_SaveIdempotent ==
    [][ last'.op = "save"
        => LET top == Before.states[Len(Before.states)]
               state == last'.val
           IN  /\ After.read_offset = Before.read_offset
               /\ After.write_offset = Before.write_offset
               /\ After.bytes = Before.bytes
               /\ IF /\ top.read_offset = Before.read_offset
                     /\ top.write_offset = Before.write_offset
                  THEN state = top /\ After = Before
                  ELSE /\ After.states = Append(Before.states, state)
                       /\ After.state_id = state.id
                       /\ state.stream = last'.sid
                       /\ state.read_offset = Before.read_offset
                       /\ state.write_offset = Before.write_offset
                       /\ state.id > Before.state_id
                       /\ \A i \in 1 .. Len(Before.states) :
                              state.id > Before.states[i].id
                       /\ \A h \in held :
                              h.state.stream = last'.sid => state.id > h.state.id
      ]_vars

\* save() returned the top snapshot a second time, on a stream that has
\* dropped snapshots (the ids are no longer the positions in the stack).
C11_Witness ==
    /\ last.op = "save"
    /\ last.arg = Len(streams[1].states)
    /\ last.val = streams[1].states[Len(streams[1].states)]
    /\ last.val.id >= Len(streams[1].states)
    /\ streams[1].state_id = last.val.id

\* The snapshot is the top of the stack of its stream.
IsTop(state) ==
    LET st == streams[state.stream]
    IN  st.states[Len(st.states)] = state

\* C12: after a successful restore(s), s is the top of the stack and the
\* entries below it are the ones that were below it; s then stays in the
\* stack, and restore(s) keeps succeeding, through reads, writes, copies and
\* saves, until the restore of a snapshot that was below s.
C12_RestoredStaysValid ==
    [][ /\ (last'.op = "restore" /\ last'.err = "none")
           => /\ After.states[Len(After.states)] = last'.arg.state
              /\ \E k \in 1 .. Len(Before.states) :
                    /\ Before.states[k] = last'.arg.state
                    /\ After.states = SubSeq(Before.states, 1, k)
        /\ \A h \in held :
              (/\ InStack(streams[h.state.stream], h.state)
               /\ ~(/\ last'.op = "restore"
                    /\ last'.err = "none"
                    /\ last'.arg # h
                    /\ InStack(Before, last'.arg.state)))
              => /\ InStack(streams'[h.state.stream], h.state)
                 /\ (last'.op = "restore" /\ last'.arg = h)
                    => last'.err = "none" ]_vars

\* restore(s) succeeded again after a write and the save of a newer
\* snapshot had followed an earlier restore(s): s is the top, above the
\* first snapshot.
C12_Witness ==
    /\ last.op = "restore"
    /\ last.err = "none"
    /\ IsTop(last.arg.state)
    /\ Len(streams[1].states) >= 2
    /\ streams[1].state_id >= last.arg.state.id + 2
    /\ 8 * num_bytes(streams[1]) >= last.arg.state.write_offset + 16

\* ======================================================================
\* C13 and C20: reads that ask for more than the stream holds.
\* ======================================================================
\* The number of bits a read of n items of a type asks for.
Asked(type, n) == (IF n = None THEN 1 ELSE n) * Width(type)

\* The bytes of a sequence of bits.
BytesOf(bits) ==
    [i \in 1 .. Len(bits) \div 8 |->
        LET b == SubSeq(bits, 8 * (i - 1) + 1, 8 * i)
        IN  b[1] * 128 + b[2] * 64 + b[3] * 32 + b[4] * 16
            + b[5] * 8 + b[6] * 4 + b[7] * 2 + b[8]]

\* C13: a read that asks for more than the stream holds raises ReadError:
\* read(bool, n) with n > len, read(T) and read(T, n) of an integer or a
\* float64 with n * width > len, read(bytes, n) with n > len // 8,
\* read(BitStream, n) and copy(n) with n > len.  read(bytes) without a count
\* raises ReadError exactly when len is not a multiple of 8, and otherwise
\* returns all the bytes that remain and empties the stream.
C13_ReadUnderflowRaises ==
    [][ /\ (last'.op = "read" /\ last'.arg.type # "bytes"
            /\ Asked(last'.arg.type, last'.arg.n) > len(Before))
           => last'.err = "ReadError"
        /\ (last'.op = "read" /\ last'.arg.type = "bytes" /\ last'.arg.n # None
            /\ last'.arg.n > len(Before) \div 8)
           => last'.err = "ReadError"
        /\ (last'.op \in {"read_bitstream", "copy"} /\ last'.arg # None
            /\ last'.arg > len(Before))
           => last'.err = "ReadError"
        /\ (last'.op = "read" /\ last'.arg.type = "bytes" /\ last'.arg.n = None)
           => IF len(Before) % 8 # 0
              THEN last'.err = "ReadError"
              ELSE /\ last'.err = "none"
                   /\ last'.val = BytesOf(str(Before))
                   /\ len(After) = 0 ]_vars

\* A read of two 64-bit integers from a stream that holds one and a half.
C13_Witness ==
    /\ last.op = "read"
    /\ last.err = "ReadError"
    /\ last.arg = [type |-> "uint64", n |-> 2]
    /\ len(streams[1]) >= 64
    /\ streams[1].read_offset > 0

\* C20: a read of a bool, an integer, a float64, bytes or a BitStream, or a
\* copy, that raises ReadError leaves read_offset, write_offset, the buffer
\* and the snapshot stack of the stream as they were (and no other stream is
\* created or changed).
C20_FailedReadIsAtomic ==
    [][ (last'.op \in {"read", "read_bitstream", "copy"} /\ last'.err = "ReadError")
        => /\ After.read_offset = Before.read_offset
           /\ After.write_offset = Before.write_offset
           /\ After.bytes = Before.bytes
           /\ After.states = Before.states
           /\ streams' = streams
           /\ alive' = alive ]_vars

\* A read of an int8 that fails on a stream with bits left, a read cursor
\* that has moved and two snapshots.
C20_Witness ==
    /\ last.op = "read"
    /\ last.err = "ReadError"
    /\ last.arg.type = "int8"
    /\ len(streams[1]) > 0
    /\ streams[1].read_offset > 0
    /\ Len(streams[1].states) >= 2

\* ======================================================================
\* C14 and C15: what a write appends (SpecWrite).
\* ======================================================================
\* The type identifier a call of write ends up with.
Resolved(c) == IF c.type.kind = "none" THEN c.data.py ELSE c.type.name

\* The number of bits a call of write is to add: nothing for None, the
\* length of the source for a stream, 8 per byte of a bytes value, and the
\* width of the type for each item otherwise.
Contribution(c) ==
    CASE c.data.py = "NoneType" -> 0
      [] c.data.list /\ c.data.items = << >> -> 0
      [] c.data.py = "BitStream" -> len(streams[c.data.items[1]])
      [] c.data.py = "bytes" -> 8 * Len(c.data.items)
      [] Resolved(c) = "float" -> 64 * Len(c.data.items)
      [] OTHER -> Width(Resolved(c)) * Len(c.data.items)

BitOfInt(v, j) ==
    LET d == j \div 8
    IN  IF d < Len(v) THEN (v[Len(v) - d] \div Pow2(j % 8)) % 2
        ELSE IF v[1] >= 128 THEN 1 ELSE 0

\* The N bits of v mod 2^N, most significant first: v is an integer for
\* N = 8 and 16, and the digits of one for N = 32 and 64.
Pattern(v, N) ==
    IF N <= 16 THEN BitsOf(v % Pow2(N), N)
    ELSE [i \in 1 .. N |-> BitOfInt(v, N - i)]

\* C15: write(v, uintN) and write(v, intN), N being 8, 16, 32 or 64, append
\* exactly the N bits of v mod 2^N, most significant first, to the content of
\* the stream; a value out of the range of the type wraps and does not fail
\* (500 as uint8 appends 11110100, -1 as int8 appends 11111111).
C15_IntegerBitPattern ==
    [][ (/\ last'.op = "write"
         /\ last'.arg.data.py \in {"int", "uint8"}
         /\ ~last'.arg.data.list
         /\ Resolved(last'.arg) \in {"uint8", "int8", "uint16", "int16",
                                     "uint32", "int32", "uint64", "int64"})
        => /\ last'.err = "none"
           /\ str(After) = str(Before)
                           \o Pattern(last'.arg.data.items[1], Width(Resolved(last'.arg))) ]_vars

\* ======================================================================
\* C16: a stream written into another (SpecSub).
\* ======================================================================
\* C16: after sink.write(source, BitStream), source being another stream,
\* the content of sink is its content before the call followed by the bits
\* that remained in source, in order, whatever the bit offsets of the four
\* cursors and the number of whole bytes and of trailing bits of source.
C16_SubStreamAppended ==
    [][ (last'.op = "write_bitstream" /\ last'.arg # last'.sid)
        => str(After) = str(Before) \o str(streams[last'.arg]) ]_vars

\* A source of one byte and one more bit, read from bit 1 on, has been
\* written into a sink whose write cursor was at bit 1.
C16_Witness ==
    /\ last.op = "write_bitstream"
    /\ last.sid = 1
    /\ last.arg = 2
    /\ streams[2].write_offset = 10
    /\ streams[2].read_offset = 10
    /\ streams[1].read_offset = 0
    /\ streams[1].write_offset = 10
    /\ str(streams[1]) = << 1, 1, 0, 0, 0, 0, 0, 1, 1, 1 >>

\* ======================================================================
\* C17: the resolution of a codec (SpecReg).
\* ======================================================================
\* The built-in identifiers.
C17_BuiltIn ==
    { "bool", "uint8", "int8", "uint16", "int16", "uint32", "int32",
      "uint64", "int64", "float", "float64", "bytes", "BitStream" }

\* The identifier a call goes by: the one given, the type of the data when
\* write is given none, BitStream when read is given none or a number of bits.
IdOf(call) ==
    IF call.op = "write"
    THEN IF call.arg.type.kind = "none" THEN Type(call.arg.data.py) ELSE call.arg.type
    ELSE read_type(call.arg.type, call.arg.n)

\* The call is a write with data to write (not None, not the empty list
\* without a type) or a read.
Dispatched(call) ==
    \/ call.op = "read"
    \/ /\ call.op = "write"
       /\ call.arg.data.py # "NoneType"
       /\ ~ (call.arg.type.kind = "none" /\ call.arg.data.list /\ call.arg.data.items = << >>)

\* The registry of the direction of the call, and the codecs it held when the
\* module was loaded.
RegistryOf(call) == IF call.op = "write" THEN _writers ELSE _readers
BuiltinCodecs(call) == IF call.op = "write" THEN BuiltinWriters ELSE BuiltinReaders

\* The call had the effect of the codec `sel` called with (stream, data) or
\* with (stream, n).
CalledWith(sel, call, after) ==
    IF call.op = "write"
    THEN \E g \in Garbage :
             LET r == call_writer(sel, streams, call.sid, call.arg.data, g)
             IN  r.st = after /\ r.err = call.err
    ELSE \E u \in WideShift :
             LET fresh == IF alive = Streams THEN 0 ELSE Fresh
                 r == call_reader(sel, streams, call.sid,
                                  read_count(call.arg.type, call.arg.n), u, fresh)
             IN  r.st = after /\ r.err = call.err

\* C17: write(value, id) and read(id, n) use the built-in codec of a built-in
\* identifier whatever is registered for it; for another type, the registry
\* entry of the type, called with (stream, data) or (stream, n); for an
\* instance, the codec returned by the registry entry of its class called
\* with the instance, called with (stream, data) or (stream, n).
C17_ResolutionOrder ==
    [][ Dispatched(last')
        => LET call == last'
               id == IdOf(call)
               sel == call.val
               entry == get(RegistryOf(call), id.name)
           IN  /\ (id.kind = "type" /\ id.name \in C17_BuiltIn)
                  => /\ sel = Found(BuiltinCodecs(call)[id.name], "None", NoType)
                     /\ CalledWith(sel, call, streams')
               /\ (id.kind = "type" /\ id.name \notin C17_BuiltIn /\ entry # "None")
                  => /\ sel = Found(entry, "None", NoType)
                     /\ CalledWith(sel, call, streams')
               /\ (id.kind = "instance" /\ entry # "None")
                  => /\ sel = Found(made(entry, id), entry, id)
                     /\ CalledWith(sel, call, streams') ]_vars

\* 65 has been written as a uint8, in 8 bits, while the writer registered
\* for uint8 is write_uint, which would have written 7 bits.
C17_Witness ==
    /\ last.op = "write"
    /\ last.err = "none"
    /\ last.arg.type = Type("uint8")
    /\ get(_writers, "uint8") = "write_uint"
    /\ last.val.codec = "write_uint8"
    /\ str(streams[1]) = << 0, 1, 0, 0, 0, 0, 0, 1 >>

\* 5 has been written with an instance of uint as identifier: by the writer
\* made by the factory registered for uint, in num_bits bits.
C17_FactoryReached ==
    /\ last.op = "write"
    /\ last.err = "none"
    /\ last.arg.type = Instance("uint", NumBits)
    /\ last.val.factory = "write_uint_factory"
    /\ str(streams[1]) = << 1, 0, 1 >>

\* ======================================================================
\* C18: the registry (SpecReg).
\* ======================================================================
\* The keys of both dictionaries.
Keys == DOMAIN _readers \cup DOMAIN _writers

\* C18: register(id, reader, writer) sets the reader of id when a reader is
\* given and leaves it as it was otherwise, and likewise for the writer (so
\* that register(id) changes nothing and the last registration of a slot is
\* the one in force); it leaves the entries of every other key as they were;
\* no call, of register, write or read, removes or changes an entry.
C18_SlotsIndependent ==
    [][ /\ last'.op = "register"
           => LET c == last'.arg
              IN  /\ get(_readers', c.type) =
                        IF c.reader # "None" THEN c.reader ELSE get(_readers, c.type)
                  /\ get(_writers', c.type) =
                        IF c.writer # "None" THEN c.writer ELSE get(_writers, c.type)
                  /\ (c.reader = "None" => _readers' = _readers)
                  /\ (c.writer = "None" => _writers' = _writers)
                  /\ \A k \in Keys' \ {c.type} :
                        /\ get(_readers', k) = get(_readers, k)
                        /\ get(_writers', k) = get(_writers, k)
        /\ last'.op # "register" => (_readers' = _readers /\ _writers' = _writers)
        /\ DOMAIN _readers \subseteq DOMAIN _readers'
        /\ DOMAIN _writers \subseteq DOMAIN _writers' ]_vars

\* register(int, reader=read_uint) is the third call, int having a writer
\* already: the reader is read_uint, the writer is still write_uint8, the
\* built-in writers are the ones of the start.
C18_Witness ==
    /\ last.op = "register"
    /\ last.arg = Registration("int", "read_uint", "None")
    /\ get(_readers, "int") = "read_uint"
    /\ get(_writers, "int") = "write_uint8"
    /\ ops = 3
    /\ \A k \in DOMAIN BuiltinWriters : _writers[k] = BuiltinWriters[k]

\* ======================================================================
\* C19: unsupported types (SpecReg).
\* ======================================================================
\* The identifier of the call is not built-in and the registry of the
\* direction of the call has no entry for it (for its class, if it is an
\* instance).
UnsupportedId(call) ==
    LET id == IdOf(call)
    IN  /\ ~ (id.kind = "type" /\ id.name \in C17_BuiltIn)
        /\ get(RegistryOf(call), id.name) = "None"

\* C19: a write of data (given a type or not) or a read whose identifier is
\* neither built-in nor registered for that direction raises TypeError and
\* leaves every stream, its cursors, its buffer and its snapshot stack, as
\* it was; this is so of a read with a key that has a writer only, and of
\* the Python int as long as nothing is registered for it.  (A write of
\* None, or of the empty list without a type, returns before it looks for
\* a writer and is a write of no data.)
C19_UnsupportedType ==
    [][ /\ (Dispatched(last') /\ UnsupportedId(last'))
           => /\ last'.err = "TypeError"
              /\ streams' = streams
              /\ alive' = alive
        /\ (last'.op = "read" /\ IdOf(last').kind = "type"
            /\ IdOf(last').name \notin C17_BuiltIn
            /\ get(_readers, IdOf(last').name) = "None"
            /\ get(_writers, IdOf(last').name) # "None")
           => last'.err = "TypeError"
        /\ (last.op = "init" /\ Dispatched(last') /\ IdOf(last') = Type("int"))
           => last'.err = "TypeError" ]_vars

\* read(int) has raised TypeError on a stream that holds the three bits
\* written by write(5, int): int has the writer write_uint and no reader.
C19_Witness ==
    /\ last.op = "read"
    /\ last.arg.type = Type("int")
    /\ last.err = "TypeError"
    /\ get(_writers, "int") = "write_uint"
    /\ get(_readers, "int") = "None"
    /\ str(streams[1]) = << 1, 0, 1 >>
    /\ streams[1].read_offset = 0

\* write(5), with nothing registered, has raised TypeError on a stream that
\* holds one bit.
C19_IntByDefault ==
    /\ last.op = "write"
    /\ last.arg.type = NoType
    /\ last.arg.data.py = "int"
    /\ last.err = "TypeError"
    /\ _writers = BuiltinWriters
    /\ str(streams[1]) = << 1 >>

RECURSIVE WriteEach(_, _, _, _, _, _)
WriteEach(ss, sid, py, items, type, g) ==
    IF items = << >> THEN ss
    ELSE WriteEach(BitStream_write(ss, sid, Value(py, Head(items)), type, _writers, g).st,
                   sid, py, Tail(items), type, g)

\* The built-in numeric types.
Numeric ==
    { "bool", "uint8", "int8", "uint16", "int16", "uint32", "int32",
      "uint64", "int64", "float", "float64" }

\* The last call wrote a list of one item or more with a numeric type.
ListWritten(call) ==
    /\ call.op = "write"
    /\ call.err = "none"
    /\ call.arg.data.list
    /\ call.arg.data.items # << >>
    /\ IdOf(call).name \in Numeric

\* C22: for every built-in numeric type T, write([v1..vk], T) leaves the
\* stream with the same content and the same cursors as write(v1, T); ...;
\* write(vk, T), at every bit offset of the write cursor.
C22_ListIsItemByItem ==
    [][ ListWritten(last')
        => \A g \in Garbage :
              LET each == WriteEach(streams, last'.sid, last'.arg.data.py,
                                    last'.arg.data.items, last'.arg.type, g)[last'.sid]
              IN  /\ After.read_offset = each.read_offset
                  /\ After.write_offset = each.write_offset
                  /\ str(After) = str(each) ]_vars

\* The same, but for the lists of int32.
C22_ButInt32 ==
    [][ (ListWritten(last') /\ IdOf(last').name # "int32")
        => \A g \in Garbage :
              LET each == WriteEach(streams, last'.sid, last'.arg.data.py,
                                    last'.arg.data.items, last'.arg.type, g)[last'.sid]
              IN  /\ After.read_offset = each.read_offset
                  /\ After.write_offset = each.write_offset
                  /\ str(After) = str(each) ]_vars

\* The same for the lists of int32 written at a bit offset other than 0.
C22_Int32Unaligned ==
    [][ (ListWritten(last') /\ IdOf(last').name = "int32" /\ Before.write_offset % 8 # 0)
        => \A g \in Garbage :
              LET each == WriteEach(streams, last'.sid, last'.arg.data.py,
                                    last'.arg.data.items, last'.arg.type, g)[last'.sid]
              IN  /\ After.read_offset = each.read_offset
                  /\ After.write_offset = each.write_offset
                  /\ str(After) = str(each) ]_vars

\* ======================================================================
\* C23: n items read at once and one by one (SpecMany).
\* ======================================================================
\* The values of n successive read(T) calls on st.
RECURSIVE ReadEach(_, _, _)
ReadEach(st, type, n) ==
    IF n = 0 THEN << >>
    ELSE LET r == read(st, type, None, "zero")
         IN  r.val \o ReadEach(r.st, type, n - 1)

\* The last call is read(T, n) with T numeric and n >= 1, on a stream that
\* holds n items or more.
ManyAsked(call, st) ==
    /\ call.op = "read"
    /\ call.arg.type \in Numeric
    /\ call.arg.n # None
    /\ call.arg.n >= 1
    /\ call.arg.n * Width(call.arg.type) <= len(st)

\* C23: for every built-in numeric type T, read(T, n) with n >= 1 and
\* n * width(T) <= len(stream) returns the n values that n successive
\* read(T) calls return, in the same order, and advances read_offset by
\* n * width(T), at every bit offset of the read cursor.
C23_ManyIsOneByOne ==
    [][ ManyAsked(last', Before)
        => /\ last'.err = "none"
           /\ last'.val = ReadEach(Before, last'.arg.type, last'.arg.n)
           /\ After.read_offset
                = Before.read_offset + last'.arg.n * Width(last'.arg.type) ]_vars

\* The same for the types of 16 bits and less, and for float64.
C23_Narrow ==
    [][ (ManyAsked(last', Before)
         /\ last'.arg.type \notin {"uint32", "int32", "uint64", "int64"})
        => /\ last'.err = "none"
           /\ last'.val = ReadEach(Before, last'.arg.type, last'.arg.n)
           /\ After.read_offset
                = Before.read_offset + last'.arg.n * Width(last'.arg.type) ]_vars

\* The same for the 32-bit types read at a bit offset of 0.
C23_Aligned32 ==
    [][ (ManyAsked(last', Before) /\ last'.arg.type \in {"uint32", "int32"}
         /\ Before.read_offset % 8 = 0)
        => /\ last'.err = "none"
           /\ last'.val = ReadEach(Before, last'.arg.type, last'.arg.n)
           /\ After.read_offset
                = Before.read_offset + last'.arg.n * Width(last'.arg.type) ]_vars

\* The same for the 64-bit types read at a bit offset of 0.
C23_Aligned64 ==
    [][ (ManyAsked(last', Before) /\ last'.arg.type \in {"uint64", "int64"}
         /\ Before.read_offset % 8 = 0)
        => /\ last'.err = "none"
           /\ last'.val = ReadEach(Before, last'.arg.type, last'.arg.n)
           /\ After.read_offset
                = Before.read_offset + last'.arg.n * Width(last'.arg.type) ]_vars

\* ======================================================================
\* C24: a write after a restore (SpecStale).
\* ======================================================================
\* The stream with every bit of its buffer at or past the write cursor set
\* to fill.
Scrub(st, fill) ==
    [st EXCEPT !.bytes =
        [i \in 1 .. Len(st.bytes) |->
            LET keep == Min(8, st.write_offset - 8 * (i - 1))
            IN  IF keep <= 0 THEN 255 * fill
                ELSE IF keep = 8 THEN st.bytes[i]
                ELSE And(st.bytes[i], 255 - Shr(255, keep)) + Shr(255, keep) * fill]]

\* The stream with the buffer it would have if nothing had been written past
\* the write cursor.
NeverWritten(st, fill) ==
    LET scrubbed == Scrub(st, fill)
    IN  [scrubbed EXCEPT !.bytes = SubSeq(scrubbed.bytes, 1, (st.write_offset + 7) \div 8)]

\* The stream sid has the content and the cursors it has after the write
\* `call` made on the stream `clean`.
SameAsOn(clean, call, after) ==
    \A g \in Garbage :
        LET r == BitStream_write([streams EXCEPT ![call.sid] = clean], call.sid,
                                 call.arg.data, call.arg.type, _writers, g)
        IN  /\ r.err = call.err
            /\ r.st[call.sid].read_offset = after.read_offset
            /\ r.st[call.sid].write_offset = after.write_offset
            /\ str(r.st[call.sid]) = str(after)

\* C24: the content after restore(s); write(v, T) does not depend on the
\* bits that were left at or past the write cursor: it is the content the
\* write gives on a stream where these bits are all 0, all 1, or were never
\* written, for every built-in type and every bit offset.
C24_StaleBitsReplaced ==
    [][ (last.op = "restore" /\ last.err = "none" /\ last'.op = "write")
        => \A fill \in {0, 1} :
              /\ SameAsOn(Scrub(Before, fill), last', After)
              /\ SameAsOn(NeverWritten(Before, fill), last', After) ]_vars

\* The same for the writes of one value.
C24_Scalars ==
    [][ (last.op = "restore" /\ last.err = "none" /\ last'.op = "write"
         /\ ~ last'.arg.data.list)
        => \A fill \in {0, 1} :
              /\ SameAsOn(Scrub(Before, fill), last', After)
              /\ SameAsOn(NeverWritten(Before, fill), last', After) ]_vars

\* The same for all writes but those of a list of int32.
C24_ButInt32Lists ==
    [][ (last.op = "restore" /\ last.err = "none" /\ last'.op = "write"
         /\ ~ (last'.arg.data.list /\ last'.arg.type = Type("int32")))
        => \A fill \in {0, 1} :
              /\ SameAsOn(Scrub(Before, fill), last', After)
              /\ SameAsOn(NeverWritten(Before, fill), last', After) ]_vars

\* ======================================================================
\* C26: the snapshot stack (SpecSnap).
\* ======================================================================
\* C26: the stack of every stream is non-empty, with the snapshot (0, 0) at
\* the bottom; from bottom to top the ids strictly increase, neither cursor
\* decreases and adjacent entries differ in at least one cursor; both
\* cursors of the stream are greater than or equal to those of the top.
C26_StackInvariant ==
    \A sid \in alive :
        LET st == streams[sid]
            states == st.states
            top == states[Len(states)]
        IN  /\ states # << >>
            /\ states[1].read_offset = 0
            /\ states[1].write_offset = 0
            /\ \A i \in 1 .. Len(states) - 1 :
                  /\ states[i].id < states[i + 1].id
                  /\ states[i].read_offset <= states[i + 1].read_offset
                  /\ states[i].write_offset <= states[i + 1].write_offset
                  /\ \/ states[i].read_offset # states[i + 1].read_offset
                     \/ states[i].write_offset # states[i + 1].write_offset
            /\ st.read_offset >= top.read_offset
            /\ st.write_offset >= top.write_offset

\* The stack holds three snapshots, the top one taken after a restore had
\* dropped one (its id is not 2), and the stream has been written to since.
C26_Witness ==
    /\ Len(streams[1].states) = 3
    /\ streams[1].states[3].id > 2
    /\ streams[1].states[2].write_offset < streams[1].states[3].write_offset
    /\ streams[1].write_offset > streams[1].states[3].write_offset

\* ======================================================================
\* C28: the cursors over the life of a stream (SpecSnap).
\* ======================================================================
\* Neither cursor of a stream is smaller after the step than before.
NotLowered(sid) ==
    /\ streams'[sid].read_offset >= streams[sid].read_offset
    /\ streams'[sid].write_offset >= streams[sid].write_offset

\* C28, as claimed: no operation (write, read, copy, save, restore) leaves
\* a cursor of a stream smaller than it was before the operation.
C28_CursorsNeverDecrease ==
    [][ \A sid \in alive : NotLowered(sid) ]_vars

\* C28, amended: write, read, copy and save leave neither cursor smaller
\* than it was; a restore that succeeds sets both cursors to the values of
\* the snapshot, which are smaller than or equal to the ones it replaces,
\* and a restore that fails leaves them as they were.
C28_CursorsDecreaseOnlyByRestore ==
    [][ /\ last'.op # "restore" => \A sid \in alive : NotLowered(sid)
        /\ last'.op = "restore"
           => /\ After.read_offset <= Before.read_offset
              /\ After.write_offset <= Before.write_offset
              /\ last'.err = "none"
                 => /\ After.read_offset = last'.arg.state.read_offset
                    /\ After.write_offset = last'.arg.state.write_offset
              /\ last'.err # "none"
                 => /\ After.read_offset = Before.read_offset
                    /\ After.write_offset = Before.write_offset
              /\ \A sid \in alive \ {last'.sid} : NotLowered(sid) ]_vars

\* A restore has put the write cursor back to bit 1 on a stream whose buffer
\* holds a whole byte past it, after two snapshots were taken.
C28_Witness ==
    /\ last.op = "restore"
    /\ last.err = "none"
    /\ 8 * Len(streams[1].bytes) >= streams[1].write_offset + 8
    /\ streams[1].read_offset = 0
    /\ streams[1].write_offset = 1
    /\ streams[1].state_id >= 2

\* ======================================================================
\* C25: the byte indices stay inside the buffer (SpecSnap).
\* ======================================================================
\* The item counts of the writes and reads looked at.
C25_Counts == 0 .. 3

\* C25: in every state a stream can reach (write cursor lowered by a restore
\* included), the highest byte index a built-in writer assigns for any
\* number of items is below the capacity _extend has made, the highest byte
\* index a built-in reader reads in a read that does not raise, and the one
\* str() reads, are below the capacity, and the memcpy of read_bitstream and
\* copy stays inside the buffers of the source and of the new stream.
C25_IndicesInBounds ==
    \A sid \in alive :
        LET st == streams[sid]
        IN  /\ \A type \in ReadTypes, k \in C25_Counts, g \in Garbage :
                  LastWritten(st, type, k) < num_bytes(extend(st, Width(type) * k, g))
            /\ \A type \in ReadTypes, k \in C25_Counts :
                  Width(type) * k <= len(st) => LastRead(st, type, k) < num_bytes(st)
            /\ LastRead(st, "bool", len(st)) < num_bytes(st)
            /\ \A num_bits \in 1 .. len(st), g \in Garbage :
                  LET m == MemcpyBounds(st, num_bits, g)
                  IN  /\ m.source_last < num_bytes(st)
                      /\ m.sink_last < m.sink_num_bytes

\* A restore has lowered the write cursor into the middle of a byte, the
\* read cursor is in the middle of a byte too and a byte or more can be read.
C25_Witness ==
    /\ last.op = "restore"
    /\ last.err = "none"
    /\ streams[1].write_offset % 8 # 0
    /\ streams[1].read_offset % 8 # 0
    /\ len(streams[1]) >= 8
    /\ 8 * num_bytes(streams[1]) >= streams[1].write_offset + 8

\* ======================================================================
\* C27: what _extend guarantees (Spec).
\* ======================================================================
\* The numbers of bits _extend is asked for.
ExtendBits == {0, 1, 7, 8, 9, 16, 64}

\* ceil(bits / 8)
CeilBytes(bits) == (bits + 7) \div 8

\* C27: in every state, _extend(num_bits) on a stream changes neither cursor
\* (nor the bytes it had, nor the snapshots), does not reduce the capacity,
\* and returns with 8 * capacity >= write_offset + num_bits; when it grows
\* the buffer the capacity is exactly ceil((write_offset + num_bits) / 8)
\* bytes, and when the room is already there (as after a restore) the
\* capacity is unchanged. No step of any operation reduces the capacity of
\* a stream.
C27_Extend ==
    [][ \A sid \in alive :
          /\ \A num_bits \in ExtendBits, g \in Garbage :
                LET st == streams[sid]
                    ex == extend(st, num_bits, g)
                IN  /\ ex.read_offset = st.read_offset
                    /\ ex.write_offset = st.write_offset
                    /\ ex.states = st.states
                    /\ num_bytes(ex) >= num_bytes(st)
                    /\ SubSeq(ex.bytes, 1, num_bytes(st)) = st.bytes
                    /\ 8 * num_bytes(ex) >= st.write_offset + num_bits
                    /\ IF 8 * num_bytes(st) >= st.write_offset + num_bits
                       THEN num_bytes(ex) = num_bytes(st)
                       ELSE num_bytes(ex) = CeilBytes(st.write_offset + num_bits)
          /\ num_bytes(streams'[sid]) >= num_bytes(streams[sid])
      ]_vars

\* A write that found the room already there: the capacity after it is still
\* a byte or more beyond the write cursor, which a write that grows the
\* buffer never leaves.
C27_Witness ==
    /\ last.op = "write"
    /\ last.err = "none"
    /\ last.arg.type = "bool"
    /\ 8 * num_bytes(streams[last.sid]) >= streams[last.sid].write_offset + 8

\* ======================================================================
\* C29: writing a stream into another consumes the source (SpecSub).
\* ======================================================================
\* C29: after sink.write(source, BitStream) with two distinct streams, all
\* the bits of source are read (its read_offset equals its write_offset),
\* its write_offset, its buffer and its snapshot stack are as they were,
\* and writing the same source into the sink once more appends nothing.
C29_SourceConsumed ==
    [][ (last'.op = "write_bitstream" /\ last'.arg # last'.sid)
        => LET source == streams[last'.arg]
               source_after == streams'[last'.arg]
               sink_after == streams'[last'.sid]
           IN  /\ source_after.read_offset = source_after.write_offset
               /\ source_after.write_offset = source.write_offset
               /\ source_after.bytes = source.bytes
               /\ source_after.states = source.states
               /\ source_after.state_id = source.state_id
               /\ \A g \in Garbage :
                     LET again == write_bitstream(sink_after, source_after, g)
                     IN  /\ again[1] = sink_after
                         /\ again[2] = source_after ]_vars

\* A source of ten bits, the first of them read, has been written into an
\* empty stream: the nine bits are in the sink and the source has none left.
C29_Witness ==
    /\ last.op = "write_bitstream"
    /\ last.sid = 2
    /\ last.arg = 1
    /\ streams[1].write_offset = 10
    /\ streams[1].read_offset = 10
    /\ streams[2].read_offset = 0
    /\ str(streams[2]) = << 1, 0, 0, 0, 0, 0, 1, 1, 1 >>

\* ======================================================================
\* C30: the stream copy and read(BitStream) return (Spec).
\* ======================================================================
\* The operations that act on the one stream last.sid names.
OnOneStream == {"write", "read", "copy", "read_bitstream", "save", "restore"}

\* C30: the stream c returned by stream.copy(n) or stream.read(BitStream, n)
\* has a buffer of its own holding exactly the bytes of stream that span
\* the n bits extracted (none for no bit), a read_offset from 0 to 7, the
\* bit offset the first bit had in its byte, and a snapshot stack of its own
\* holding the initial snapshot only. Afterwards an operation on one of the
\* streams changes no other stream, and restore on a stream with a snapshot
\* taken on another raises ValueError and changes nothing.
C30_CompactAndIndependent ==
    [][ /\ (last'.op \in {"copy", "read_bitstream"} /\ last'.err = "none")
           => LET c == streams'[last'.val]
                  n == IF last'.arg = None THEN len(Before) ELSE last'.arg
                  first == Before.read_offset \div 8
                  span == IF n = 0 THEN 0
                          ELSE (Before.read_offset + n - 1) \div 8 - first + 1
              IN  /\ last'.val # last'.sid
                  /\ last'.val \notin alive
                  /\ c.bytes = SubSeq(Before.bytes, first + 1, first + span)
                  /\ num_bytes(c) = span
                  /\ c.read_offset \in 0 .. 7
                  /\ c.read_offset = IF n = 0 THEN 0 ELSE Before.read_offset % 8
                  /\ c.write_offset = c.read_offset + n
                  /\ c.states = << NewState(last'.val, 0, 0, 0) >>
                  /\ c.state_id = 0
        /\ last'.op \in OnOneStream
           => \A o \in alive \ {last'.sid} : streams'[o] = streams[o]
        /\ (last'.op = "restore" /\ last'.arg.state.stream # last'.sid)
           => /\ last'.err = "ValueError"
              /\ streams' = streams ]_vars

\* Three bits have been extracted from a stream of more than a byte whose
\* read cursor had passed the first byte: the stream returned holds one byte
\* and its read cursor is inside it.
C30_Witness ==
    /\ last.op \in {"copy", "read_bitstream"}
    /\ last.err = "none"
    /\ last.arg = 3
    /\ num_bytes(streams[last.sid]) > 1
    /\ num_bytes(streams[last.val]) = 1
    /\ streams[last.val].read_offset > 0
    /\ len(streams[last.val]) = 3

====
